---- MODULE Spec2Model ----
(***************************************************************************)
(* Briscola (two players): the card and rule model, the game state machine *)
(* BriscolaEnv, the determinizer, the heuristic agents and the ISMCTS      *)
(* search agent of briscola_ai.                                            *)
(*                                                                         *)
(* Cards are the integers 0..39 in the order of all_deck(): card           *)
(* 10*s + r has suit number s (0 denari, 1 coppe, 2 bastoni, 3 spade) and  *)
(* the rank at 0-based position r of RANK_ORDER (A 3 K C F 7 6 5 4 2).     *)
(* Python lists are mutable objects: they live in a heap `mem` (a sequence *)
(* of cells, an address is an index) and an env record holds addresses,    *)
(* so that copying and sharing of lists between an env and its clone is    *)
(* part of the model.  Players are 0 and 1 as in the source; TLA+          *)
(* sequences are 1-based, so Python's x[i] is x[i+1] here.                 *)
(* Card objects are immutable; the object c + 40 is a second Card object   *)
(* equal to the card c (same suit and rank, another identity), which is    *)
(* what Card(suit, rank) yields when evaluated again.                      *)
(***************************************************************************)
EXTENDS Integers, Sequences, FiniteSets, TLC

VARIABLES
    mem,        \* heap of list objects reachable from the authoritative env
    env,        \* the authoritative BriscolaEnv (scalar fields and list addresses)
    agents,     \* the two agents handed to play_game
    games,      \* number of reset() calls after construction
    free,       \* number of direct step() calls with a caller-chosen index in this game
    last,       \* what the last operation returned (its kind, index or error)
    call,       \* a call of a pure function of the rule model: its name and arguments
    ret,        \* what that call returned
    agent,      \* the ISMCTSAgent object that play_game reuses (its generator, its tree)
    act         \* the ISMCTSAgent.act call in progress, if any

\* ---------------------------------------------------------------- bounds
MaxEnvSeed == 1
MaxGames == 1
MaxFree == 1
MaxIterations == 2
MaxTwist == 1
MaxSearchSeed == 3
MaxCallSeed == 1
MaxKeyTwist == 1
MaxWorkers == 2
MaxWorkerTurns == 2
MaxCloneSeed == 1
MaxClones == 2
MaxCalls == 1

\* ---------------------------------------------------------------- cards.py
None == -1
ValueError == -2

NSuits == 4
NRanks == 10
NCards == NSuits * NRanks

Suit == 0 .. (NSuits - 1)
Card == 0 .. (NCards - 1)
Player == {0, 1}

\* RANK_ORDER as 0-based positions; names kept for reading traces
RANK_ORDER == <<"A", "3", "K", "C", "F", "7", "6", "5", "4", "2">>
POINTS == <<11, 10, 4, 3, 2, 0, 0, 0, 0, 0>>

\* every Card object: the deck's own and their equal copies
CardObject == 0 .. (2 * NCards - 1)

suit(c) == (c % NCards) \div NRanks
rank(c) == c % NRanks
\* Card.__eq__ of the frozen dataclass: same suit and rank
card_eq(a, b) == a % NCards = b % NCards
points(c) == POINTS[rank(c) + 1]

all_deck == [i \in 1 .. NCards |-> i - 1]

RECURSIVE SumPoints(_)
SumPoints(cards) ==
    IF cards = <<>> THEN 0 ELSE points(Head(cards)) + SumPoints(Tail(cards))

Range(s) == {s[i] : i \in DOMAIN s}

\* s without its element at 1-based position k (list.pop(k-1))
RemoveAt(s, k) == SubSeq(s, 1, k - 1) \o SubSeq(s, k + 1, Len(s))

\* ---------------------------------------------------------------- random.Random
\* The generator is a state machine whose outputs are a function of its state.
\* A 16-bit linear congruential generator stands for the Mersenne Twister.
RngMod == 65536
RngMul == 25173
RngInc == 13849

Random(seed) == (seed * 7919 + 104729) % RngMod
rng_next(s) == (RngMul * s + RngInc) % RngMod
\* _randbelow(n): the value drawn and the generator's next state
randbelow(s, n) == [val |-> (rng_next(s) \div 16) % n, rng |-> rng_next(s)]
\* random(): the float drawn (here the new state itself) and the next state
rng_random(s) == [val |-> rng_next(s), rng |-> rng_next(s)]

Swap(x, i, j) == [x EXCEPT ![i] = x[j], ![j] = x[i]]

\* random.shuffle: for i in reversed(range(1, len(x))): j = randbelow(i + 1); swap
RECURSIVE shuffle_from(_, _, _)
shuffle_from(x, i, s) ==
    IF i < 1 THEN [list |-> x, rng |-> s]
    ELSE LET d == randbelow(s, i + 1)
         IN shuffle_from(Swap(x, i + 1, d.val + 1), i - 1, d.rng)

shuffle(x, s) == shuffle_from(x, Len(x) - 1, s)

shuffled_deck(s) == shuffle(all_deck, s)

\* (mutant) strength read off the point table: the zero-point ranks all tie
stronger_by_points(a, b) ==
    IF suit(a) # suit(b) THEN ValueError
    ELSE IF points(a) > points(b) THEN a ELSE b

\* the stronger of a and b, which must share a suit; an earlier RANK_ORDER
\* position is stronger.  The result is one of the two objects.
stronger_in_suit(a, b) ==
    IF suit(a) # suit(b) THEN ValueError
    ELSE IF rank(a) < rank(b) THEN a ELSE b

\* 0 when the lead card wins, 1 when the follow card wins; `is lead` compares
\* object identity
trick_winner(lead, follow, briscola) ==
    LET lead_is_trump == suit(lead) = briscola
        foll_is_trump == suit(follow) = briscola
        cmp == stronger_in_suit(lead, follow)
    IN IF lead_is_trump /\ foll_is_trump
       THEN (IF cmp = ValueError THEN ValueError ELSE IF cmp = lead THEN 0 ELSE 1)
       ELSE IF foll_is_trump /\ ~lead_is_trump THEN 1
       ELSE IF suit(follow) # suit(lead) /\ ~foll_is_trump THEN 0
       ELSE (IF cmp = ValueError THEN ValueError ELSE IF cmp = lead THEN 0 ELSE 1)

\* (mutant) only the lead card is scored
trick_points_lead_only(c1, c2) == points(c1)

trick_points(c1, c2) == points(c1) + points(c2)

\* ---------------------------------------------------------------- env.py
\* heap access: the hands object is a list of two list addresses
hand_addr(m, e, p) == m[e.hands][p + 1]
hand_of(m, e, p) == m[hand_addr(m, e, p)]
deck_of(m, e) == m[e.deck]
points_of(m, e) == m[e.points]
played_of(m, e) == m[e.played]

\* a new list object holding v
alloc(m, v) == [mem |-> Append(m, v), addr |-> Len(m) + 1]

\* The heap restricted to the objects an env reaches, at canonical addresses
\* (unreachable lists are garbage).
collect(m, e) ==
    [mem |-> << <<2, 3>>, hand_of(m, e, 0), hand_of(m, e, 1),
                deck_of(m, e), points_of(m, e), played_of(m, e) >>,
     env |-> [e EXCEPT !.hands = 1, !.deck = 4, !.points = 5, !.played = 6]]

observe(m, e, player) ==
    LET trick_pts == (IF e.lead_card # None THEN points(e.lead_card) ELSE 0)
                     + (IF e.follow_card # None THEN points(e.follow_card) ELSE 0)
    IN [player |-> player,
        hand |-> hand_of(m, e, player),
        briscola |-> e.briscola,
        lead_card |-> IF player = 1 - e.leader THEN e.lead_card ELSE None,
        deck_count |-> Len(deck_of(m, e)),
        trick_points_so_far |-> trick_pts,
        played |-> played_of(m, e),
        opponent_count |-> Len(hand_of(m, e, 1 - player))]

legal_moves(m, e, player) == 0 .. (Len(hand_of(m, e, player)) - 1)

\* reset(): shuffle, reveal the last card as trump, deal three cards each
\* alternately from the top; every list is a new object
reset(m, e) ==
    LET sh == shuffled_deck(e.rng)
        deck == sh.list
        rest == SubSeq(deck, 1, NCards - 1)
        a_h0 == alloc(m, <<rest[1], rest[3], rest[5]>>)
        a_h1 == alloc(a_h0.mem, <<rest[2], rest[4], rest[6]>>)
        a_hs == alloc(a_h1.mem, <<a_h0.addr, a_h1.addr>>)
        a_dk == alloc(a_hs.mem, SubSeq(rest, 7, Len(rest)))
        a_pt == alloc(a_dk.mem, <<0, 0>>)
        a_pl == alloc(a_pt.mem, <<>>)
    IN [mem |-> a_pl.mem,
        env |-> [rng |-> sh.rng,
                 trump_card |-> deck[NCards],
                 briscola |-> suit(deck[NCards]),
                 deck |-> a_dk.addr,
                 hands |-> a_hs.addr,
                 points |-> a_pt.addr,
                 leader |-> 0,
                 turn_player |-> 0,
                 lead_card |-> None,
                 follow_card |-> None,
                 played |-> a_pl.addr,
                 done |-> FALSE]]

\* __init__(seed)
BriscolaEnv(seed) ==
    LET r == reset(<<>>, [rng |-> Random(seed)])
    IN collect(r.mem, r.env)

\* (mutant) the top of the stock is read but not popped
draw_no_pop(st, who) ==
    LET m == st.mem
        e == st.env
        ha == hand_addr(m, e, who)
    IN IF deck_of(m, e) # <<>>
       THEN [mem |-> [m EXCEPT ![ha] = Append(m[ha], Head(m[e.deck]))], env |-> e]
       ELSE IF e.trump_card # None
       THEN [mem |-> [m EXCEPT ![ha] = Append(m[ha], e.trump_card)],
             env |-> [e EXCEPT !.trump_card = None]]
       ELSE st

\* (mutant) only the stock is drawn from: the revealed trump card is never taken
draw_stock_only(st, who) ==
    LET m == st.mem
        e == st.env
        ha == hand_addr(m, e, who)
    IN IF deck_of(m, e) # <<>>
       THEN [mem |-> [m EXCEPT ![ha] = Append(m[ha], Head(m[e.deck])),
                               ![e.deck] = Tail(m[e.deck])],
             env |-> e]
       ELSE st

\* one pass of the drawing loop of step: `who` draws from the stock, else
\* the revealed trump card, else nothing
draw(st, who) ==
    LET m == st.mem
        e == st.env
        ha == hand_addr(m, e, who)
    IN IF deck_of(m, e) # <<>>
       THEN [mem |-> [m EXCEPT ![ha] = Append(m[ha], Head(m[e.deck])),
                               ![e.deck] = Tail(m[e.deck])],
             env |-> e]
       ELSE IF e.trump_card # None
       THEN [mem |-> [m EXCEPT ![ha] = Append(m[ha], e.trump_card)],
             env |-> [e EXCEPT !.trump_card = None]]
       ELSE st

\* (mutant) the terminal test forgets the hands
game_over_ignores_hands(m, e) == e.trump_card = None /\ deck_of(m, e) = <<>>

\* the terminal test at the end of step
game_over(m, e) ==
    /\ hand_of(m, e, 0) = <<>>
    /\ hand_of(m, e, 1) = <<>>
    /\ e.trump_card = None
    /\ deck_of(m, e) = <<>>

\* (mutant) the loser of the trick draws before the winner
resolve_loser_draws_first(m, e, player) ==
    LET winner_rel == trick_winner(e.lead_card, e.follow_card, e.briscola)
        winner == IF winner_rel = 0 THEN e.leader ELSE 1 - e.leader
        gained == trick_points(e.lead_card, e.follow_card)
        m1 == [m EXCEPT ![e.points][winner + 1] = @ + gained,
                        ![e.played] = Append(Append(@, e.lead_card), e.follow_card)]
        d1 == draw([mem |-> m1, env |-> e], 1 - winner)
        d2 == draw(d1, winner)
        e2 == [d2.env EXCEPT !.leader = winner, !.turn_player = winner,
                             !.lead_card = None, !.follow_card = None]
        over == game_over(d2.mem, e2)
    IN IF winner_rel = ValueError
       THEN [mem |-> m, env |-> e, err |-> "ValueError"]
       ELSE [mem |-> d2.mem,
             env |-> IF over THEN [e2 EXCEPT !.done = TRUE] ELSE e2,
             err |-> "ok"]

\* the second card of a trick: score, record, draw, new leader, terminal flag
resolve(m, e, player) ==
    LET winner_rel == trick_winner(e.lead_card, e.follow_card, e.briscola)
        winner == IF winner_rel = 0 THEN e.leader ELSE 1 - e.leader
        gained == trick_points(e.lead_card, e.follow_card)
        m1 == [m EXCEPT ![e.points][winner + 1] = @ + gained,
                        ![e.played] = Append(Append(@, e.lead_card), e.follow_card)]
        d1 == draw([mem |-> m1, env |-> e], winner)
        d2 == draw(d1, 1 - winner)
        e2 == [d2.env EXCEPT !.leader = winner, !.turn_player = winner,
                             !.lead_card = None, !.follow_card = None]
        over == game_over(d2.mem, e2)
    IN IF winner_rel = ValueError
       THEN [mem |-> m, env |-> e, err |-> "ValueError"]
       ELSE [mem |-> d2.mem,
             env |-> IF over THEN [e2 EXCEPT !.done = TRUE] ELSE e2,
             err |-> "ok"]

\* step(player, action_idx) on the env e of heap m.  list.pop accepts the
\* indices -len .. len-1 and counts negative ones from the end.
step(m, e, player, action_idx) ==
    LET ha == hand_addr(m, e, player)
        n == Len(m[ha])
    IN IF e.done \/ player # e.turn_player
       THEN [mem |-> m, env |-> e, err |-> "AssertionError"]
       ELSE IF action_idx >= n \/ action_idx < 0 - n
       THEN [mem |-> m, env |-> e, err |-> "IndexError"]
       ELSE LET k == IF action_idx < 0 THEN n + action_idx ELSE action_idx
                card == m[ha][k + 1]
                m1 == [m EXCEPT ![ha] = RemoveAt(@, k + 1)]
            IN IF e.turn_player = e.leader
               THEN [mem |-> m1,
                     env |-> [e EXCEPT !.lead_card = card, !.turn_player = 1 - player],
                     err |-> "ok"]
               ELSE resolve(m1, [e EXCEPT !.follow_card = card], player)

\* ---------------------------------------------------------------- rule_based.py
\* order[c.rank] of the agents: 9 for the ace down to 0 for the two
order(c) == (NRanks - 1) - rank(c)

card_value(c) == points(c)

\* the tuple (points, order) compared as Python compares tuples
value_key(c) == points(c) * NRanks + order(c)

\* (mutant) the first card of the lowest point value, whatever its strength
lowest_points_idx(hand) ==
    CHOOSE i \in 0 .. (Len(hand) - 1) :
        /\ \A j \in 0 .. (Len(hand) - 1) : points(hand[i + 1]) <= points(hand[j + 1])
        /\ \A j \in 0 .. (i - 1) : points(hand[j + 1]) > points(hand[i + 1])

\* first index (0-based) of the smallest (points, order)
lowest_card_idx(hand) ==
    CHOOSE i \in 0 .. (Len(hand) - 1) :
        /\ \A j \in 0 .. (Len(hand) - 1) : value_key(hand[i + 1]) <= value_key(hand[j + 1])
        /\ \A j \in 0 .. (i - 1) : value_key(hand[j + 1]) > value_key(hand[i + 1])

\* max(range(len(hand)), key=(vals[i], order)): the first index of the maximum
HighestFirstAgent_act(obs) ==
    CHOOSE i \in 0 .. (Len(obs.hand) - 1) :
        /\ \A j \in 0 .. (Len(obs.hand) - 1) :
              value_key(obs.hand[j + 1]) <= value_key(obs.hand[i + 1])
        /\ \A j \in 0 .. (i - 1) : value_key(obs.hand[j + 1]) < value_key(obs.hand[i + 1])

Min(S) == CHOOSE x \in S : \A y \in S : x <= y

\* (mutant) a winning trump is looked for before a winning card of the lead's suit
BestChoiceFirstAgent_trump_first(obs) ==
    LET hand == obs.hand
        lead == obs.lead_card
        briscola == obs.briscola
        idxs == 0 .. (Len(hand) - 1)
        same_suit_wins == {i \in idxs : /\ suit(hand[i + 1]) = suit(lead)
                                        /\ trick_winner(lead, hand[i + 1], briscola) = 1}
        trump_wins == {i \in idxs : /\ suit(hand[i + 1]) = briscola
                                    /\ trick_winner(lead, hand[i + 1], briscola) = 1}
    IN IF lead = None THEN HighestFirstAgent_act(obs)
       ELSE IF points(lead) = 0 THEN lowest_card_idx(hand)
       ELSE IF trump_wins # {} THEN Min(trump_wins)
       ELSE IF same_suit_wins # {} THEN Min(same_suit_wins)
       ELSE lowest_card_idx(hand)

BestChoiceFirstAgent_act(obs) ==
    LET hand == obs.hand
        lead == obs.lead_card
        briscola == obs.briscola
        idxs == 0 .. (Len(hand) - 1)
        same_suit_wins == {i \in idxs : /\ suit(hand[i + 1]) = suit(lead)
                                        /\ trick_winner(lead, hand[i + 1], briscola) = 1}
        trump_wins == {i \in idxs : /\ suit(hand[i + 1]) = briscola
                                    /\ trick_winner(lead, hand[i + 1], briscola) = 1}
    IN IF lead = None THEN HighestFirstAgent_act(obs)
       ELSE IF points(lead) = 0 THEN lowest_card_idx(hand)
       ELSE IF same_suit_wins # {} THEN Min(same_suit_wins)
       ELSE IF trump_wins # {} THEN Min(trump_wins)
       ELSE lowest_card_idx(hand)

AgentKinds == {"BestChoiceFirst", "HighestFirst"}

agent_act(kind, obs) ==
    IF kind = "HighestFirst" THEN HighestFirstAgent_act(obs)
    ELSE BestChoiceFirstAgent_act(obs)

\* ---------------------------------------------------------------- floats
\* Python floats are modelled in fixed point: the integer v stands for
\* v / Scale.  exp and sqrt are tabulated to that resolution.
Scale == 10000

\* division truncating toward zero, for signed fixed-point values
fdiv(a, b) == IF a >= 0 THEN a \div b ELSE 0 - ((0 - a) \div b)

\* Scale * exp(-q) for q = 0 .. 10 and Scale * exp(-f/20) for f = 0 .. 19
EXP_INT == <<10000, 3679, 1353, 498, 183, 67, 25, 9, 3, 1, 0>>
EXP_FRAC == <<10000, 9512, 9048, 8607, 8187, 7788, 7408, 7047, 6703, 6376,
              6065, 5769, 5488, 5220, 4966, 4724, 4493, 4274, 4066, 3867>>

\* Scale * exp(-j/20) for an integer j >= 0
exp_neg(j) ==
    IF j >= 20 * (Len(EXP_INT) - 1) THEN 0
    ELSE (EXP_INT[(j \div 20) + 1] * EXP_FRAC[(j % 20) + 1]) \div Scale

\* Scale * sqrt(n) for n = 1 .. 12
SQRT_TABLE == <<10000, 14142, 17321, 20000, 22361, 24495, 26458, 28284,
                30000, 31623, 33166, 34641>>

isqrt(n) == CHOOSE r \in 0 .. n : r * r <= n /\ (r + 1) * (r + 1) > n

sqrt_fp(n) == IF n <= Len(SQRT_TABLE) THEN SQRT_TABLE[n] ELSE (Scale \div 100) * isqrt(n * 10000)

RECURSIVE SumSeq(_)
SumSeq(xs) == IF xs = <<>> THEN 0 ELSE Head(xs) + SumSeq(Tail(xs))

Max(S) == CHOOSE x \in S : \A y \in S : x >= y

\* first 0-based index of xs holding its maximum (max(..., key=...))
first_argmax(xs) ==
    CHOOSE i \in 0 .. (Len(xs) - 1) :
        /\ \A j \in 0 .. (Len(xs) - 1) : xs[j + 1] <= xs[i + 1]
        /\ \A j \in 0 .. (i - 1) : xs[j + 1] < xs[i + 1]

\* the element of a singleton set; the({F(x) : x \in {v}}) is F(v) with the
\* value v computed once, which is how a Python local variable holds a result
the(S) == CHOOSE x \in S : TRUE

\* Python's s[a:b] with both ends clamped to the list
pyslice(s, a, b) ==
    LET lo == IF a > Len(s) THEN Len(s) ELSE a
        hi == IF b > Len(s) THEN Len(s) ELSE b
    IN IF hi <= lo THEN <<>> ELSE SubSeq(s, lo + 1, hi)

\* ---------------------------------------------------------------- heuristics.py
\* card_id: the pair (suit.value, rank), i.e. the card's value whatever the object
card_id(c) == c % NCards

\* (mutant) the exponentials are returned without dividing by their sum
softmax_unnormalised(xs, temp) ==
    LET m == Max(Range(xs))
    IN [i \in DOMAIN xs |->
          IF temp <= 0 THEN (IF xs[i] = m THEN Scale ELSE 0)
          ELSE exp_neg(((m - xs[i]) * 2) \div temp)]

\* scores are multiples of 0.05: the integer x stands for x / 20.
\* temp is given in halves (2 is the default 1.0); temp <= 0 becomes 1e-6,
\* for which every score below the maximum underflows to exp(..) = 0.0
softmax(xs, temp) ==
    LET m == Max(Range(xs))
        e(x) == IF temp <= 0 THEN (IF x = m THEN Scale ELSE 0)
                ELSE exp_neg(((m - x) * 2) \div temp)
        exps == [i \in DOMAIN xs |-> e(xs[i])]
        s == IF SumSeq(exps) = 0 THEN Scale ELSE SumSeq(exps)
    IN [i \in DOMAIN xs |-> (exps[i] * Scale) \div s]

rank_value(c) == (NRanks - 1) - rank(c)

\* raw score of card c when following `lead`
follow_score(obs, c) ==
    LET br == obs.briscola
        trick_pts == obs.trick_points_so_far
        wins == trick_winner(obs.lead_card, c, br) = 1
        base == IF wins
                THEN 40 + 3 * (trick_pts + points(c))
                     + (IF suit(c) # br THEN 16
                        ELSE IF trick_pts + points(c) < 6 THEN 0 - 8 ELSE 0)
                ELSE 4 + (IF suit(c) = br THEN 0 - 20 ELSE 0)
    IN base + (IF ~wins /\ rank_value(c) >= 8 THEN 0 - 10 ELSE 0)

\* raw score of card c when opening the trick
lead_score(obs, c) ==
    LET br == obs.briscola
    IN (IF suit(c) # br /\ points(c) = 0 /\ rank_value(c) <= 4 THEN 24 ELSE 0)
       + (IF suit(c) # br /\ points(c) > 0 THEN 0 - 6 ELSE 0)
       + (IF suit(c) = br THEN (0 - 12) + (IF rank_value(c) <= 4 THEN 4 ELSE 0) ELSE 0)
       + (IF rank_value(c) >= 8 THEN 0 - 8 ELSE 0)

\* the dict card_id -> probability, in hand order
move_priors_for_obs(obs, temp) ==
    LET hand == obs.hand
        scores == [i \in DOMAIN hand |->
                     IF obs.lead_card # None THEN follow_score(obs, hand[i])
                     ELSE lead_score(obs, hand[i])]
        probs == IF hand = <<>> THEN <<>> ELSE softmax(scores, temp)
        pos(k) == CHOOSE i \in DOMAIN hand : card_id(hand[i]) = k
    IN [k \in {card_id(hand[i]) : i \in DOMAIN hand} |-> probs[pos(k)]]

\* ---------------------------------------------------------------- env.py (clone)
\* (mutant) the played list is shared with the source env instead of copied
clone_shares_played(m, e) ==
    LET r == rng_random(e.rng)
        a_dk == alloc(m, deck_of(m, e))
        a_h0 == alloc(a_dk.mem, hand_of(m, e, 0))
        a_h1 == alloc(a_h0.mem, hand_of(m, e, 1))
        a_hs == alloc(a_h1.mem, <<a_h0.addr, a_h1.addr>>)
        a_pt == alloc(a_hs.mem, points_of(m, e))
    IN [mem |-> a_pt.mem,
        env |-> [e EXCEPT !.rng = r.rng],
        new |-> [e EXCEPT !.rng = Random(r.val), !.deck = a_dk.addr,
                          !.hands = a_hs.addr, !.points = a_pt.addr]]

\* clone(): a new env whose lists are new objects with the same contents; its
\* generator is seeded with a number drawn from the source env's generator
clone(m, e) ==
    LET r == rng_random(e.rng)
        a_dk == alloc(m, deck_of(m, e))
        a_h0 == alloc(a_dk.mem, hand_of(m, e, 0))
        a_h1 == alloc(a_h0.mem, hand_of(m, e, 1))
        a_hs == alloc(a_h1.mem, <<a_h0.addr, a_h1.addr>>)
        a_pt == alloc(a_hs.mem, points_of(m, e))
        a_pl == alloc(a_pt.mem, played_of(m, e))
    IN [mem |-> a_pl.mem,
        env |-> [e EXCEPT !.rng = r.rng],
        new |-> [e EXCEPT !.rng = Random(r.val), !.deck = a_dk.addr,
                          !.hands = a_hs.addr, !.points = a_pt.addr,
                          !.played = a_pl.addr]]

\* ---------------------------------------------------------------- determinization.py
\* all_deck() evaluated again: new Card objects equal to the deck's
all_deck_again == [i \in 1 .. NCards |-> NCards + i - 1]

\* (mutant) the revealed trump card is not counted as known
known_cards_without_trump(obs, sim) ==
    {card_id(c) : c \in Range(obs.hand)}
        \cup {card_id(c) : c \in Range(obs.played)}
        \cup (IF obs.lead_card # None THEN {card_id(obs.lead_card)} ELSE {})
        \cup (IF sim.follow_card # None THEN {card_id(sim.follow_card)} ELSE {})

\* the values (suit, rank) the acting player can see
known_cards(obs, sim) ==
    {card_id(c) : c \in Range(obs.hand)}
        \cup {card_id(c) : c \in Range(obs.played)}
        \cup (IF obs.lead_card # None THEN {card_id(obs.lead_card)} ELSE {})
        \cup (IF sim.follow_card # None THEN {card_id(sim.follow_card)} ELSE {})
        \cup (IF sim.trump_card # None THEN {card_id(sim.trump_card)} ELSE {})

\* (mutant) the opponent is given as many cards as the acting player holds
opp_needed_as_own(obs) == Len(obs.hand)

\* the size of the opponent's hand to sample
opp_needed_of(obs) == obs.opponent_count

\* (mutant) the clone keeps its copy of the real stock
determinized_real_stock(cl, obs, sh) ==
    LET sim == cl.new
        me == obs.player
        opp == 1 - me
        opp_hand == pyslice(sh.list, 0, opp_needed_of(obs))
        a_me == alloc(cl.mem, obs.hand)
        a_op == alloc(a_me.mem, opp_hand)
    IN [mem |-> [a_op.mem EXCEPT ![sim.hands][me + 1] = a_me.addr,
                                 ![sim.hands][opp + 1] = a_op.addr],
        env |-> cl.env,
        sim |-> sim,
        rng |-> sh.rng]

\* the clone sim of determinize_for_player with its hands and stock replaced:
\* the acting player's hand is a copy of obs.hand, the opponent's hand and
\* the stock are slices of the shuffled unseen cards sh
determinized(cl, obs, sh) ==
    LET sim == cl.new
        me == obs.player
        opp == 1 - me
        opp_needed == opp_needed_of(obs)
        deck_needed == obs.deck_count
        opp_hand == pyslice(sh.list, 0, opp_needed)
        deck_rest == pyslice(sh.list, opp_needed, opp_needed + deck_needed)
        a_me == alloc(cl.mem, obs.hand)
        a_op == alloc(a_me.mem, opp_hand)
        a_dk == alloc(a_op.mem, deck_rest)
    IN [mem |-> [a_dk.mem EXCEPT ![sim.hands][me + 1] = a_me.addr,
                                 ![sim.hands][opp + 1] = a_op.addr],
        env |-> cl.env,
        sim |-> [sim EXCEPT !.deck = a_dk.addr],
        rng |-> sh.rng]

\* the unseen cards: all_deck() without the known ones, in deck order
unseen_cards(obs, sim) ==
    LET known == known_cards(obs, sim)
        Unseen(c) == card_id(c) \notin known
    IN SelectSeq(all_deck_again, Unseen)

\* a clone of env e in which the acting player's hand is obs.hand and the
\* opponent's hand and the stock are drawn from the unseen cards, shuffled
\* with the caller's generator rng.  Yields the heap, the source env (its
\* generator advanced by clone), the clone and the caller's generator after
\* the shuffle.
determinize_for_player(m, e, obs, rng) ==
    the({ the({ determinized(cl, obs, sh) :
                sh \in {shuffle(unseen_cards(obs, cl.new), rng)} }) :
          cl \in {clone(m, e)} })

\* ---------------------------------------------------------------- mcts.py
\* position of a card id in Python's order of the tuples (suit.value, rank):
\* "bastoni" < "coppe" < "denari" < "spade", "2" < ... < "7" < "A" < "C" < "F" < "K"
SUIT_SORT == <<2, 1, 0, 3>>
RANK_SORT == <<6, 1, 9, 7, 8, 5, 4, 3, 2, 0>>
sort_key(k) == SUIT_SORT[(k \div NRanks) + 1] * NRanks + RANK_SORT[(k % NRanks) + 1]

\* sorted(ids) for distinct card ids
RECURSIVE sorted_ids(_)
sorted_ids(S) ==
    IF S = {} THEN <<>>
    ELSE LET k == CHOOSE x \in S : \A y \in S : sort_key(x) <= sort_key(y)
         IN <<k>> \o sorted_ids(S \ {k})

\* (mutant) the hand ids are taken in hand order, unsorted
obs_key_hand_order(m, e, player) ==
    LET obs == observe(m, e, player)
    IN <<player, e.briscola,
         IF obs.lead_card # None THEN card_id(obs.lead_card) ELSE None,
         Len(obs.played), obs.deck_count,
         [i \in DOMAIN obs.hand |-> card_id(obs.hand[i])]>>

obs_key(m, e, player) ==
    LET obs == observe(m, e, player)
    IN <<player, e.briscola,
         IF obs.lead_card # None THEN card_id(obs.lead_card) ELSE None,
         Len(obs.played), obs.deck_count,
         sorted_ids({card_id(c) : c \in Range(obs.hand)})>>

legal_action_ids(m, e, player) ==
    LET hand == observe(m, e, player).hand
    IN [i \in DOMAIN hand |-> card_id(hand[i])]

\* NodeStats(actions=actions) with its priors; N.get(a, 0) and W.get(a, 0.0)
\* are the values of N and W
NodeStats(actions, P) ==
    [N |-> [a \in Range(actions) |-> 0],
     W |-> [a \in Range(actions) |-> 0],
     P |-> P,
     actions |-> actions]

\* the PUCT value q + c * p * sqrt(total_N + 1) / (1 + n) of action a
puct_value(node, a, c) ==
    LET total_N == SumSeq([i \in DOMAIN node.actions |-> node.N[node.actions[i]]])
        n == node.N[a]
        w == node.W[a]
        q == IF n > 0 THEN fdiv(w, n) ELSE 0
        p == IF a \in DOMAIN node.P THEN node.P[a]
             ELSE Scale \div Max({1, Len(node.actions)})
        u == fdiv(fdiv(p * sqrt_fp(total_N + 1), Scale) * c, 10 * (1 + n))
    IN q + u

\* the first action with the greatest PUCT value, None without actions
choose_puct(node, c) ==
    IF node.actions = <<>> THEN None
    ELSE node.actions[first_argmax([i \in DOMAIN node.actions |->
                                      puct_value(node, node.actions[i], c)]) + 1]

\* (mutant) the position is counted from one
index_of_from_one(hand, a) ==
    LET hits == {i \in 1 .. Len(hand) : card_id(hand[i]) = a}
    IN IF hits = {} THEN None ELSE Min(hits)

\* next(i for i, c in enumerate(hand) if cid(c) == a): None stands for StopIteration
index_of(hand, a) ==
    LET hits == {i \in 0 .. (Len(hand) - 1) : card_id(hand[i + 1]) = a}
    IN IF hits = {} THEN None ELSE Min(hits)

\* (mutant) after the new node's action a node is created for the next state
\* as well
select_new_node_and_next(m, sim, tree, path, p, key, actions, P) ==
    LET tree1 == (key :> NodeStats(actions, P)) @@ tree
        a == actions[first_argmax([i \in DOMAIN actions |->
                        IF actions[i] \in DOMAIN P THEN P[actions[i]] ELSE 0]) + 1]
        idx == index_of(observe(m, sim, p).hand, a)
    IN IF idx = None
       THEN [mem |-> m, sim |-> sim, tree |-> tree1, path |-> path, err |-> "ok"]
       ELSE the({ [mem |-> r.mem, sim |-> r.env,
                   tree |-> IF r.err = "ok" /\ ~r.env.done
                            THEN (obs_key(r.mem, r.env, r.env.turn_player)
                                    :> NodeStats(legal_action_ids(r.mem, r.env, r.env.turn_player),
                                                 <<>>)) @@ tree1
                            ELSE tree1,
                   path |-> IF r.err = "ok" THEN Append(path, <<key, p, a>>) ELSE path,
                   err |-> r.err] :
                  r \in {step(m, sim, p, idx)} })

\* _select_expand at a state without a node: create the node with its priors
\* and play the action of the greatest prior
select_new_node(m, sim, tree, path, p, key, actions, P) ==
    LET tree1 == (key :> NodeStats(actions, P)) @@ tree
        a == actions[first_argmax([i \in DOMAIN actions |->
                        IF actions[i] \in DOMAIN P THEN P[actions[i]] ELSE 0]) + 1]
        idx == index_of(observe(m, sim, p).hand, a)
    IN IF idx = None
       THEN [mem |-> m, sim |-> sim, tree |-> tree1, path |-> path, err |-> "ok"]
       ELSE the({ [mem |-> r.mem, sim |-> r.env, tree |-> tree1,
                   path |-> IF r.err = "ok" THEN Append(path, <<key, p, a>>) ELSE path,
                   err |-> r.err] :
                  r \in {step(m, sim, p, idx)} })

\* _select_expand on the simulation env sim: walk down the tree by PUCT,
\* create at most one node and stop after its first action
RECURSIVE select_expand(_, _, _, _, _)
select_expand(m, sim, tree, path, ag) ==
    LET p == sim.turn_player
        stop == [mem |-> m, sim |-> sim, tree |-> tree, path |-> path, err |-> "ok"]
    IN IF sim.done THEN stop
       ELSE the({
         IF key \notin DOMAIN tree
         THEN LET actions == legal_action_ids(m, sim, p)
              IN IF actions = <<>> THEN stop
                 ELSE the({ select_new_node(m, sim, tree, path, p, key, actions, P) :
                            P \in {move_priors_for_obs(observe(m, sim, p), ag.prior_temp)} })
         ELSE LET a == choose_puct(tree[key], ag.c)
                  idx == index_of(observe(m, sim, p).hand, a)
              IN IF a = None \/ idx = None THEN stop
                 ELSE the({ IF r.err # "ok"
                            THEN [mem |-> r.mem, sim |-> r.env, tree |-> tree,
                                  path |-> path, err |-> r.err]
                            ELSE select_expand(r.mem, r.env, tree,
                                               Append(path, <<key, p, a>>), ag) :
                            r \in {step(m, sim, p, idx)} }) :
         key \in {obs_key(m, sim, p)} })

\* the move of a rollout: the rollout agent's answer, 0 when it is no index of the hand
rollout_move(obs) ==
    LET move == BestChoiceFirstAgent_act(obs)
    IN IF move < 0 \/ move >= Len(obs.hand) THEN 0 ELSE move

\* _rollout: both players follow BestChoiceFirstAgent until the game is over
\* or the turn player's hand is empty
RECURSIVE rollout(_, _)
rollout(m, sim) ==
    IF sim.done \/ observe(m, sim, sim.turn_player).hand = <<>>
    THEN [mem |-> m, sim |-> sim, err |-> "ok"]
    ELSE the({ IF r.err # "ok" THEN [mem |-> r.mem, sim |-> r.env, err |-> r.err]
               ELSE rollout(r.mem, r.env) :
               r \in {step(m, sim, sim.turn_player,
                           rollout_move(observe(m, sim, sim.turn_player)))} })

\* _result: (points[me] - points[opp]) / 120 clamped to [-1, 1]
result(m, sim, root_player) ==
    LET pts == points_of(m, sim)
        diff == pts[root_player + 1] - pts[(1 - root_player) + 1]
        v == fdiv(diff * Scale, 120)
    IN IF v < 0 - Scale THEN 0 - Scale ELSE IF v > Scale THEN Scale ELSE v

\* v * discount ** depth, discount given in tenths
RECURSIVE discounted(_, _, _)
discounted(v, discount, depth) ==
    IF depth = 0 THEN v ELSE discounted(fdiv(v * discount, 10), discount, depth - 1)

\* (mutant) the value is not negated at the nodes of the other player
RECURSIVE backprop_from_unsigned(_, _, _, _, _, _)
backprop_from_unsigned(tree, path, d, root_player, value, discount) ==
    IF d > Len(path) THEN tree
    ELSE LET key == path[d][1]
             a == path[d][3]
             dv == discounted(value, discount, d - 1)
             tree1 == IF key \notin DOMAIN tree THEN tree
                      ELSE [tree EXCEPT ![key].N[a] = @ + 1, ![key].W[a] = @ + dv]
         IN backprop_from_unsigned(tree1, path, d + 1, root_player, value, discount)

\* _backprop from the entry at 1-based position d of the path on
RECURSIVE backprop_from(_, _, _, _, _, _)
backprop_from(tree, path, d, root_player, value, discount) ==
    IF d > Len(path) THEN tree
    ELSE LET key == path[d][1]
             p == path[d][2]
             a == path[d][3]
             signed_v == IF p = root_player THEN value ELSE 0 - value
             dv == discounted(signed_v, discount, d - 1)
             tree1 == IF key \notin DOMAIN tree THEN tree
                      ELSE [tree EXCEPT ![key].N[a] = @ + 1, ![key].W[a] = @ + dv]
         IN backprop_from(tree1, path, d + 1, root_player, value, discount)

\* (mutant) the entry at depth 0, the root's, is skipped
backprop_skips_root(tree, path, root_player, value, discount) ==
    backprop_from(tree, path, 2, root_player, value, discount)

backprop(tree, path, root_player, value, discount) ==
    backprop_from(tree, path, 1, root_player, value, discount)

\* what one pass of the loop of act leaves: det is the determinized state,
\* sel the state after _select_expand, rol the state after _rollout
iteration_result(det, sel, rol, obs, ag) ==
    LET value == result(rol.mem, rol.sim, obs.player)
    IN [mem |-> rol.mem,
        env |-> det.env,
        agent |-> [ag EXCEPT !.rng = det.rng,
                             !.tree = IF rol.err = "ok"
                                      THEN backprop(sel.tree, sel.path, obs.player,
                                                    value, ag.discount)
                                      ELSE sel.tree],
        err |-> rol.err,
        det |-> [hands |-> <<hand_of(det.mem, det.sim, 0), hand_of(det.mem, det.sim, 1)>>,
                 deck |-> deck_of(det.mem, det.sim),
                 played |-> played_of(det.mem, det.sim),
                 points |-> points_of(det.mem, det.sim),
                 env |-> [det.sim EXCEPT !.hands = 0, !.deck = 0,
                                         !.points = 0, !.played = 0]],
        path |-> sel.path,
        value |-> value,
        final |-> [done |-> rol.sim.done, points |-> points_of(rol.mem, rol.sim)]]

\* one pass of the loop of act on the agent ag (its tree and generator):
\* determinize, select/expand, rollout, evaluate, backpropagate.  Yields the
\* heap, the authoritative env, the agent and what the pass saw.
iteration(m, e, obs, ag) ==
    the({ the({ the({ iteration_result(det, sel, rol, obs, ag) :
                      rol \in {IF sel.err = "ok" THEN rollout(sel.mem, sel.sim)
                               ELSE [mem |-> sel.mem, sim |-> sel.sim, err |-> sel.err]} }) :
                sel \in {select_expand(det.mem, det.sim, ag.tree, <<>>, ag)} }) :
          det \in {determinize_for_player(m, e, obs, ag.rng)} })

\* (mutant) the action of the highest mean return W / N is returned, an
\* unvisited action counting as 0
act_return_by_mean(m, e, obs, ag) ==
    LET root_key == obs_key(m, e, obs.player)
        has_node == root_key \in DOMAIN ag.tree
        node == ag.tree[root_key]
        mean(a) == IF node.N[a] > 0 THEN fdiv(node.W[a], node.N[a]) ELSE 0
        best_a == node.actions[first_argmax([i \in DOMAIN node.actions |->
                                               mean(node.actions[i])]) + 1]
        idx == index_of(obs.hand, best_a)
    IN IF ~has_node \/ node.actions = <<>>
       THEN (IF obs.hand = <<>> THEN [idx |-> None, err |-> "ValueError"]
             ELSE [idx |-> BestChoiceFirstAgent_act(obs), err |-> "ok"])
       ELSE IF idx = None THEN [idx |-> None, err |-> "StopIteration"]
       ELSE [idx |-> idx, err |-> "ok"]

\* the end of act: the most visited action of the root node, as an index of
\* obs.hand; without a root node the answer of BestChoiceFirstAgent
act_return(m, e, obs, ag) ==
    LET root_key == obs_key(m, e, obs.player)
        has_node == root_key \in DOMAIN ag.tree
        node == ag.tree[root_key]
        best_a == node.actions[first_argmax([i \in DOMAIN node.actions |->
                                               node.N[node.actions[i]]]) + 1]
        idx == index_of(obs.hand, best_a)
    IN IF ~has_node \/ node.actions = <<>>
       THEN (IF obs.hand = <<>> THEN [idx |-> None, err |-> "ValueError"]
             ELSE [idx |-> BestChoiceFirstAgent_act(obs), err |-> "ok"])
       ELSE IF idx = None THEN [idx |-> None, err |-> "StopIteration"]
       ELSE [idx |-> idx, err |-> "ok"]

\* ---------------------------------------------------------------- the game
vars == <<mem, env, agents, games, free, last, call, ret, agent, act>>

NoCall == [fn |-> "none"]
NoOp == [op |-> "init", idx |-> None, err |-> "ok", n |-> 0]
NoAgent == [seed |-> None]
NoAct == [pc |-> "idle"]

Init ==
    /\ \E seed \in 0 .. MaxEnvSeed :
          LET b == BriscolaEnv(seed) IN mem = b.mem /\ env = b.env
    /\ \E k \in AgentKinds : agents = <<k, "BestChoiceFirst">>
    /\ games = 0
    /\ free = 0
    /\ last = NoOp
    /\ call = NoCall
    /\ ret = None
    /\ agent = NoAgent
    /\ act = NoAct

\* env.reset() for the next game: the first statement of play_game, which the
\* tuning and command-line drivers call again on the same env once a game is over
Reset ==
    /\ env.done
    /\ act.pc = "idle"
    /\ games < MaxGames
    /\ LET r == reset(mem, env)
           c == collect(r.mem, r.env)
       IN mem' = c.mem /\ env' = c.env
    /\ games' = games + 1
    /\ free' = 0
    /\ last' = [op |-> "reset", idx |-> None, err |-> "ok", n |-> 0]
    /\ UNCHANGED <<agents, call, ret, agent, act>>

\* a caller's legal step(turn_player, i)
Step ==
    /\ ~env.done
    /\ act.pc = "idle"
    /\ free < MaxFree
    /\ \E i \in legal_moves(mem, env, env.turn_player) :
          LET r == step(mem, env, env.turn_player, i)
          IN /\ mem' = r.mem
             /\ env' = r.env
             /\ last' = [op |-> "step", idx |-> i, err |-> r.err,
                          n |-> Len(hand_of(mem, env, env.turn_player))]
    /\ free' = free + 1
    /\ UNCHANGED <<agents, games, call, ret, agent, act>>

\* one pass of the loop of play_game: the turn player's agent acts on its
\* observation and the env steps with the move
PlayGameTurn ==
    /\ ~env.done
    /\ agents[env.turn_player + 1] \in AgentKinds
    /\ act.pc = "idle"
    /\ LET p == env.turn_player
           obs == observe(mem, env, p)
           move == agent_act(agents[p + 1], obs)
           r == step(mem, env, p, move)
       IN /\ mem' = r.mem
          /\ env' = r.env
          /\ last' = [op |-> "play", idx |-> move, err |-> r.err, n |-> Len(obs.hand)]
    /\ UNCHANGED <<agents, games, free, call, ret, agent, act>>

Next == Reset \/ Step \/ PlayGameTurn

Spec == Init /\ [][Next]_vars

\* ---------------------------------------------------------------- the search agent at play
\* the configurations of the drivers: ISMCTSAgent(c=1.0, discount=0.7, seed=7)
\* with prior_temp 1.0 and the full iteration budget; a second one with other
\* values and a budget of one iteration.  c and discount are in tenths,
\* prior_temp in halves.
AgentConfigs ==
    { [iterations |-> MaxIterations, c |-> 10, discount |-> 7, seed |-> 7,
       prior_temp |-> 2],
      [iterations |-> 1, c |-> 5, discount |-> 10, seed |-> 42, prior_temp |-> 1] }

\* (mutant) the generator is not seeded: the agent shares the env's generator state
ISMCTSAgent_unseeded(cfg) ==
    [iterations |-> cfg.iterations, c |-> cfg.c, discount |-> cfg.discount,
     seed |-> cfg.seed, prior_temp |-> cfg.prior_temp,
     rng |-> env.rng, tree |-> <<>>]

\* ISMCTSAgent.__init__
ISMCTSAgent(cfg) ==
    [iterations |-> cfg.iterations, c |-> cfg.c, discount |-> cfg.discount,
     seed |-> cfg.seed, prior_temp |-> cfg.prior_temp,
     rng |-> Random(cfg.seed), tree |-> <<>>]

\* a second agent constructed with the parameters of ag
same_config(ag) ==
    ISMCTSAgent([iterations |-> ag.iterations, c |-> ag.c, discount |-> ag.discount,
                 seed |-> ag.seed, prior_temp |-> ag.prior_temp])

\* the agent the advisor builds for every decision: iterations, c, discount
\* and seed of its configured agent, prior_temp left at the default 1.0
advisor_agent(ag) ==
    ISMCTSAgent([iterations |-> ag.iterations, c |-> ag.c, discount |-> ag.discount,
                 seed |-> ag.seed, prior_temp |-> 2])

\* a seat of the search agent: "ISMCTS" is one agent object that acts for the
\* whole game (play_game), "Advisor" builds an agent for every decision
SearchKinds == {"ISMCTS", "Advisor"}

\* the fields of an env that make up the game state, lists by content
EnvView(m, e) ==
    [hands |-> <<hand_of(m, e, 0), hand_of(m, e, 1)>>,
     deck |-> deck_of(m, e),
     trump_card |-> e.trump_card,
     briscola |-> e.briscola,
     points |-> points_of(m, e),
     leader |-> e.leader,
     turn_player |-> e.turn_player,
     lead_card |-> e.lead_card,
     follow_card |-> e.follow_card,
     played |-> played_of(m, e),
     done |-> e.done]

\* s rotated left by k places
Rotate(s, k) ==
    IF s = <<>> THEN s
    ELSE [i \in 1 .. Len(s) |-> s[((i - 1 + k) % Len(s)) + 1]]

\* another authoritative env: what `player` observes and every public field
\* are those of e, the cards hidden from `player` (the opponent's hand, then
\* the stock) are rotated by `twist` places; its generator is in state rng
TwinEnv(m, e, player, twist, rng) ==
    LET opp == 1 - player
        n == Len(hand_of(m, e, opp))
        hidden == Rotate(hand_of(m, e, opp) \o deck_of(m, e), twist)
    IN [mem |-> [m EXCEPT ![hand_addr(m, e, opp)] = SubSeq(hidden, 1, n),
                          ![e.deck] = SubSeq(hidden, n + 1, Len(hidden))],
        env |-> [e EXCEPT !.rng = rng]]

NoResult == [idx |-> None, err |-> "none"]

InitAgent ==
    /\ \E seed \in 0 .. MaxSearchSeed :
          LET b == BriscolaEnv(seed) IN mem = b.mem /\ env = b.env
    /\ \E k \in SearchKinds : agents \in {<<k, "BestChoiceFirst">>, <<"HighestFirst", k>>}
    /\ \E cfg \in AgentConfigs : agent = ISMCTSAgent(cfg)
    /\ games = 0
    /\ free = 0
    /\ last = NoOp
    /\ call = NoCall
    /\ ret = None
    /\ act = NoAct

\* agents[p].act(env, obs) is entered for the search agent: tree.clear() on
\* the agent play_game holds, or on one built for this decision
ActBegin ==
    /\ ~env.done
    /\ agents[env.turn_player + 1] \in SearchKinds
    /\ act.pc = "idle"
    /\ LET kind == agents[env.turn_player + 1]
       IN act' = [pc |-> "first",
                  fresh |-> (kind = "Advisor" \/ agent.rng = Random(agent.seed)),
                  twist |-> 0,
                  obs |-> observe(mem, env, env.turn_player),
                  env0 |-> EnvView(mem, env),
                  rng0 |-> env.rng,
                  ag |-> IF kind = "Advisor" THEN advisor_agent(agent)
                         ELSE [agent EXCEPT !.tree = <<>>],
                  it |-> 0,
                  err |-> "ok",
                  det |-> <<>>,
                  dets |-> <<>>,
                  iter |-> <<>>,
                  first |-> NoResult,
                  second |-> NoResult]
    /\ UNCHANGED <<mem, env, agents, games, free, last, call, ret, agent>>

\* one pass of the loop of act of the agent that play_game or the advisor asked
Iterate ==
    /\ act.pc = "first"
    /\ act.err = "ok"
    /\ act.it < act.ag.iterations
    /\ \E r \in {iteration(mem, env, act.obs, act.ag)} :
          /\ \E c \in {collect(r.mem, r.env)} : mem' = c.mem /\ env' = c.env
          /\ act' = [act EXCEPT !.ag = r.agent, !.it = @ + 1, !.err = r.err,
                                !.det = r.det,
                                !.dets = Append(@, r.det),
                                !.iter = [path |-> r.path, value |-> r.value,
                                          final |-> r.final]]
    /\ UNCHANGED <<agents, games, free, last, call, ret, agent>>

\* act returns (or raises) and play_game has the answer.  For comparison a
\* second agent with the same parameters is then asked the same question on
\* another env: one in the state the first agent was handed (twist = 0), or
\* one that differs from it in the cards hidden from the player.
ActReturn ==
    /\ act.pc = "first"
    /\ act.err # "ok" \/ act.it = act.ag.iterations
    /\ \E twist \in 0 .. MaxTwist :
          act' = [act EXCEPT !.pc = "second", !.twist = twist, !.it = 0, !.err = "ok",
                             !.ag = same_config(act.ag),
                             !.first = IF act.err # "ok"
                                       THEN [idx |-> None, err |-> act.err]
                                       ELSE act_return(mem, env, act.obs, act.ag)]
    /\ agent' = IF agents[env.turn_player + 1] = "Advisor" THEN agent
                ELSE act.ag
    /\ UNCHANGED <<mem, env, agents, games, free, last, call, ret>>

\* one pass of the loop of act of the second agent, on its own env
IterateTwin ==
    /\ act.pc = "second"
    /\ act.err = "ok"
    /\ act.it < act.ag.iterations
    /\ \E E \in {TwinEnv(mem, env, act.obs.player, act.twist, act.rng0)} :
       \E r \in {iteration(E.mem, E.env, act.obs, act.ag)} :
          act' = [act EXCEPT !.ag = r.agent, !.it = @ + 1, !.err = r.err,
                             !.det = r.det, !.rng0 = r.env.rng,
                             !.iter = [path |-> r.path, value |-> r.value,
                                       final |-> r.final]]
    /\ UNCHANGED <<mem, env, agents, games, free, last, call, ret, agent>>

\* the second agent's act returns (or raises)
ActReturnTwin ==
    /\ act.pc = "second"
    /\ act.err # "ok" \/ act.it = act.ag.iterations
    /\ \E E \in {TwinEnv(mem, env, act.obs.player, act.twist, act.rng0)} :
          act' = [act EXCEPT !.pc = "done",
                             !.second = IF act.err # "ok"
                                        THEN [idx |-> None, err |-> act.err]
                                        ELSE act_return(E.mem, E.env, act.obs, act.ag)]
    /\ UNCHANGED <<mem, env, agents, games, free, last, call, ret, agent>>

\* play_game steps with the move the search agent returned
PlayAgentMove ==
    /\ ~env.done
    /\ act.pc = "done"
    /\ act.first.err = "ok"
    /\ LET p == env.turn_player
           r == step(mem, env, p, act.first.idx)
       IN /\ mem' = r.mem
          /\ env' = r.env
          /\ last' = [op |-> "play", idx |-> act.first.idx, err |-> r.err,
                      n |-> Len(act.obs.hand)]
    /\ act' = NoAct
    /\ UNCHANGED <<agents, games, free, call, ret, agent>>

NextAgent ==
    Reset \/ PlayGameTurn \/ ActBegin \/ Iterate \/ ActReturn \/ IterateTwin
        \/ ActReturnTwin \/ PlayAgentMove

SpecAgent == InitAgent /\ [][NextAgent]_vars


\* ---------------------------------------------------------------- a caller of step
\* the cards reset deals to each hand
HandSize == 3

\* the indices a caller passes: every index of a full hand, and beyond it on
\* both sides
CallIndices == (0 - HandSize - 1) .. HandSize

InitCalls ==
    /\ \E seed \in 0 .. MaxCallSeed :
          LET b == BriscolaEnv(seed) IN mem = b.mem /\ env = b.env
    /\ agents = <<"HighestFirst", "BestChoiceFirst">>
    /\ games = 0
    /\ free = 0
    /\ last = NoOp
    /\ call = NoCall
    /\ ret = None
    /\ agent = NoAgent
    /\ act = NoAct

\* a caller's step(player, action_idx) with any player and any index, in any
\* state, terminal ones included; `last` keeps the arguments, the state the
\* call was made in and whether it raised
StepCall ==
    /\ last.err = "ok"
    /\ free < MaxCalls
    /\ \E player \in Player, i \in CallIndices :
       \E r \in {step(mem, env, player, i)} :
          /\ mem' = r.mem
          /\ env' = r.env
          /\ last' = [op |-> "call", idx |-> i, err |-> r.err,
                      n |-> IF env.done THEN 0 ELSE Len(hand_of(mem, env, player)),
                      player |-> player,
                      before |-> [view |-> EnvView(mem, env), rng |-> env.rng]]
    /\ free' = free + 1
    /\ UNCHANGED <<agents, games, call, ret, agent, act>>

\* play_game's loop runs as long as no call has raised
NextCalls == (last.err = "ok" /\ PlayGameTurn) \/ StepCall

SpecCalls == InitCalls /\ [][NextCalls]_vars

\* ---------------------------------------------------------------- the information-set keys
\* the env with the same cards in another order: the player's own hand, the
\* opponent's hand and the stock are rotated by `twist` places
ReorderedEnv(m, e, player, twist) ==
    the({ [mem |-> [t.mem EXCEPT ![hand_addr(m, e, player)] = Rotate(@, twist)],
           env |-> t.env] :
          t \in {TwinEnv(m, e, player, twist, e.rng)} })

\* a state of the game is kept, reordered, to have its key compared later
KeepState ==
    /\ call.fn = "none"
    /\ ~env.done
    /\ \E player \in Player, twist \in 0 .. MaxKeyTwist :
          \E r \in {ReorderedEnv(mem, env, player, twist)} :
             call' = [fn |-> "kept", mem |-> r.mem, env |-> r.env,
                      player |-> player, twist |-> twist]
    /\ UNCHANGED <<mem, env, agents, games, free, last, ret, agent, act>>

\* _obs_key of the kept state and of the present one, for the same player
CompareKeys ==
    /\ call.fn = "kept"
    /\ ~env.done
    /\ ret' = [kept |-> obs_key(call.mem, call.env, call.player),
               now |-> obs_key(mem, env, call.player)]
    /\ call' = [call EXCEPT !.fn = "compared"]
    /\ UNCHANGED <<mem, env, agents, games, free, last, agent, act>>

NextKeys ==
    \/ call.fn # "compared" /\ (Reset \/ PlayGameTurn)
    \/ KeepState
    \/ CompareKeys

SpecKeys == Init /\ [][NextKeys]_vars

\* ---------------------------------------------------------------- iterations run concurrently
\* The passes of the loop of act run as concurrent workers on the shared
\* self.tree and self.rng.  A worker's determinization, its rollout and each
\* update of one node's N and W are atomic; between the test
\* `key not in self.tree` and the store `self.tree[key] = node` other workers run.
IdleWorker == [pc |-> "idle"]

\* act is entered: tree.clear(), then the workers are started
SearchBegin ==
    /\ ~env.done
    /\ act.pc = "idle"
    /\ act' = [pc |-> "workers",
               obs |-> observe(mem, env, env.turn_player),
               w |-> [i \in 1 .. MaxWorkers |-> IdleWorker],
               paths |-> <<>>,
               replaced |-> FALSE]
    /\ agent' = [agent EXCEPT !.tree = <<>>]
    /\ UNCHANGED <<mem, env, agents, games, free, last, call, ret>>

\* sim = determinize_for_player(env, obs, self.rng); path = []
WorkerBegin(i) ==
    /\ act.pc = "workers"
    /\ act.w[i].pc = "idle"
    /\ \E det \in {determinize_for_player(mem, env, act.obs, agent.rng)} :
          /\ env' = det.env
          /\ agent' = [agent EXCEPT !.rng = det.rng]
          /\ act' = [act EXCEPT !.w[i] = [pc |-> "select", mem |-> det.mem,
                                          sim |-> det.sim, path |-> <<>>]]
    /\ UNCHANGED <<mem, agents, games, free, last, call, ret>>

\* one pass of the `while not env.done` loop of _select_expand up to the step
\* at an existing node, or up to the test that finds no node for the key
WorkerSelect(i) ==
    /\ act.pc = "workers"
    /\ act.w[i].pc = "select"
    /\ LET W == act.w[i]
           p == W.sim.turn_player
           key == obs_key(W.mem, W.sim, p)
           a == choose_puct(agent.tree[key], agent.c)
           idx == index_of(observe(W.mem, W.sim, p).hand, a)
       IN act' = [act EXCEPT !.w[i] =
             IF W.sim.done THEN [W EXCEPT !.pc = "rollout"]
             ELSE IF key \notin DOMAIN agent.tree
             THEN [W EXCEPT !.pc = IF legal_action_ids(W.mem, W.sim, p) = <<>>
                                   THEN "rollout" ELSE "insert"]
             ELSE IF a = None \/ idx = None THEN [W EXCEPT !.pc = "rollout"]
             ELSE the({ [W EXCEPT !.mem = r.mem, !.sim = r.env,
                                  !.path = Append(@, <<key, p, a>>)] :
                        r \in {step(W.mem, W.sim, p, idx)} })]
    /\ UNCHANGED <<mem, env, agents, games, free, last, call, ret, agent>>

\* the branch of _select_expand that found no node: self.tree[key] = node,
\* the step of the greatest prior, the path entry, return
WorkerInsert(i) ==
    /\ act.pc = "workers"
    /\ act.w[i].pc = "insert"
    /\ \E W \in {act.w[i]} :
       \E p \in {W.sim.turn_player} :
       \E key \in {obs_key(W.mem, W.sim, p)} :
       \E r \in {select_new_node(W.mem, W.sim, agent.tree, W.path, p, key,
                                 legal_action_ids(W.mem, W.sim, p),
                                 move_priors_for_obs(observe(W.mem, W.sim, p),
                                                     agent.prior_temp))} :
          /\ agent' = [agent EXCEPT !.tree = r.tree]
          /\ act' = [act EXCEPT !.w[i] = [W EXCEPT !.pc = "rollout", !.mem = r.mem,
                                                    !.sim = r.sim, !.path = r.path],
                                !.replaced = @ \/ key \in DOMAIN agent.tree]
    /\ UNCHANGED <<mem, env, agents, games, free, last, call, ret>>

\* _rollout and _result on the worker's own simulation
WorkerRollout(i) ==
    /\ act.pc = "workers"
    /\ act.w[i].pc = "rollout"
    /\ \E W \in {act.w[i]} :
       \E rol \in {rollout(W.mem, W.sim)} :
          act' = [act EXCEPT
                    !.w[i] = [pc |-> IF W.path = <<>> THEN "done" ELSE "backprop",
                              path |-> W.path, d |-> 1,
                              value |-> result(rol.mem, rol.sim, act.obs.player)],
                    !.paths = IF W.path = <<>> THEN Append(@, W.path) ELSE @]
    /\ UNCHANGED <<mem, env, agents, games, free, last, call, ret, agent>>

\* one pass of the loop of _backprop: N[a] and W[a] of one path entry are
\* updated in one atomic step; after the last entry the iteration is complete
WorkerBackprop(i) ==
    /\ act.pc = "workers"
    /\ act.w[i].pc = "backprop"
    /\ \E W \in {act.w[i]} :
          /\ agent' = [agent EXCEPT !.tree =
                          backprop_from(@, SubSeq(W.path, 1, W.d), W.d, act.obs.player,
                                        W.value, agent.discount)]
          /\ act' = [act EXCEPT
                       !.w[i] = IF W.d = Len(W.path) THEN [W EXCEPT !.pc = "done"]
                                ELSE [W EXCEPT !.d = @ + 1],
                       !.paths = IF W.d = Len(W.path) THEN Append(@, W.path) ELSE @]
    /\ UNCHANGED <<mem, env, agents, games, free, last, call, ret>>

NextWorkers ==
    \/ Len(played_of(mem, env)) + (IF env.lead_card # None THEN 1 ELSE 0) < MaxWorkerTurns
          /\ PlayGameTurn
    \/ SearchBegin
    \/ \E i \in 1 .. MaxWorkers :
          \/ WorkerBegin(i)
          \/ WorkerSelect(i)
          \/ WorkerInsert(i)
          \/ WorkerRollout(i)
          \/ WorkerBackprop(i)

SpecWorkers == InitAgent /\ [][NextWorkers]_vars

\* ---------------------------------------------------------------- clone and the next reset
\* the call has not returned yet
NoReturn == [pending |-> TRUE]

\* an env built from a seed; call keeps the seed, from which an env that is
\* never cloned can be built
InitClone ==
    /\ \E seed \in 0 .. MaxCloneSeed :
          /\ \E b \in {BriscolaEnv(seed)} : mem = b.mem /\ env = b.env
          /\ call = [fn |-> "clone", seed |-> seed]
    /\ \E k \in AgentKinds : agents = <<k, "BestChoiceFirst">>
    /\ games = 0
    /\ free = 0
    /\ last = NoOp
    /\ ret = NoReturn
    /\ agent = NoAgent
    /\ act = NoAct

\* env.clone(); the clone is dropped
CloneCall ==
    /\ ret.pending
    /\ free < MaxClones
    /\ \E r \in {clone(mem, env)} :
       \E c \in {collect(r.mem, r.env)} : mem' = c.mem /\ env' = c.env
    /\ free' = free + 1
    /\ UNCHANGED <<agents, games, last, call, ret, agent, act>>

\* env.reset(), in any state of the game; ret keeps the new deal and the deal
\* reset() gives on an env of the same seed that was never cloned
ResetCall ==
    /\ ret.pending
    /\ \E r \in {reset(mem, env)} :
       \E c \in {collect(r.mem, r.env)} :
       \E b \in {BriscolaEnv(call.seed)} :
       \E t \in {reset(b.mem, b.env)} :
          /\ mem' = c.mem
          /\ env' = c.env
          /\ ret' = [pending |-> FALSE,
                     deal |-> EnvView(c.mem, c.env),
                     uncloned |-> EnvView(t.mem, t.env)]
    /\ last' = [op |-> "reset", idx |-> None, err |-> "ok", n |-> 0]
    /\ UNCHANGED <<agents, games, free, call, agent, act>>

NextClone == (ret.pending /\ PlayGameTurn) \/ CloneCall \/ ResetCall

SpecClone == InitClone /\ [][NextClone]_vars

\* ---------------------------------------------------------------- the rule model alone
\* trick_winner on every lead object of the deck, every follow object (of
\* the deck or an equal copy) and every trump suit
InitRules ==
    /\ \E lead \in Card, follow \in CardObject, briscola \in Suit :
          call = [fn |-> "trick_winner", lead |-> lead, follow |-> follow,
                  briscola |-> briscola]
    /\ ret = None
    /\ mem = <<>>
    /\ env = [done |-> TRUE]
    /\ agents = <<"BestChoiceFirst", "BestChoiceFirst">>
    /\ games = 0
    /\ free = 0
    /\ last = NoOp
    /\ agent = NoAgent
    /\ act = NoAct

CallTrickWinner ==
    /\ call.fn = "trick_winner"
    /\ ret = None
    /\ ret' = trick_winner(call.lead, call.follow, call.briscola)
    /\ UNCHANGED <<mem, env, agents, games, free, last, call, agent, act>>

NextRules == CallTrickWinner

SpecRules == InitRules /\ [][NextRules]_vars

\* ---------------------------------------------------------------- the policies alone
\* rank positions of the cards the policies are asked about: A, 3, C, 7, 2
PolicyRanks == {0, 1, 3, 5, 9}
\* cards of the first three suits, lead cards of the first suit, and the
\* first two suits as trump: the lead is a trump or it is not, a card of the
\* hand follows suit, is a trump, or is neither
PolicyCards == {c \in Card : suit(c) \in 0 .. 2 /\ rank(c) \in PolicyRanks}
PolicyLeads == {c \in PolicyCards : suit(c) = 0} \cup {None}
PolicyTrumps == {0, 1}
\* temperatures in halves: 0 (replaced by 1e-6), 0.5, 1.0
PolicyTemps == {0, 1, 2}

\* hands of 1 .. HandSize distinct cards, in every order
PolicyHands(lead) ==
    {h \in UNION {[1 .. n -> PolicyCards \ {lead}] : n \in 1 .. HandSize} :
        \A i, j \in DOMAIN h : i # j => h[i] # h[j]}

\* the observation of player 1 holding `hand`, following `lead` or opening
\* the trick when lead is None
policy_obs(hand, lead, briscola) ==
    [player |-> 1,
     hand |-> hand,
     briscola |-> briscola,
     lead_card |-> lead,
     deck_count |-> 0,
     trick_points_so_far |-> IF lead = None THEN 0 ELSE points(lead),
     played |-> <<>>,
     opponent_count |-> IF lead = None THEN Len(hand) ELSE Len(hand) - 1]

InitPolicy ==
    /\ \E lead \in PolicyLeads, briscola \in PolicyTrumps :
       \E hand \in PolicyHands(lead) :
       \E fn \in {"BestChoiceFirst", "HighestFirst", "move_priors_for_obs"} :
       \E temp \in IF fn = "move_priors_for_obs" THEN PolicyTemps ELSE {2} :
          call = [fn |-> fn, obs |-> policy_obs(hand, lead, briscola), temp |-> temp]
    /\ ret = NoReturn
    /\ mem = <<>>
    /\ env = [done |-> TRUE]
    /\ agents = <<"BestChoiceFirst", "BestChoiceFirst">>
    /\ games = 0
    /\ free = 0
    /\ last = NoOp
    /\ agent = NoAgent
    /\ act = NoAct

\* agent.act(env, obs) of a rule-based agent
CallAgentAct ==
    /\ call.fn \in AgentKinds
    /\ ret.pending
    /\ ret' = [pending |-> FALSE, idx |-> agent_act(call.fn, call.obs)]
    /\ UNCHANGED <<mem, env, agents, games, free, last, call, agent, act>>

\* move_priors_for_obs(obs, temp)
CallMovePriors ==
    /\ call.fn = "move_priors_for_obs"
    /\ ret.pending
    /\ ret' = [pending |-> FALSE,
                priors |-> move_priors_for_obs(call.obs, call.temp)]
    /\ UNCHANGED <<mem, env, agents, games, free, last, call, agent, act>>

NextPolicy == CallAgentAct \/ CallMovePriors

SpecPolicy == InitPolicy /\ [][NextPolicy]_vars

\* ---------------------------------------------------------------- claims
Hand(p) == hand_of(mem, env, p)
Deck == deck_of(mem, env)
Points == points_of(mem, env)
Played == played_of(mem, env)
CardPoints(c) == IF c = None THEN 0 ELSE points(c)

\* C1: when the game is over (done), the two scores add up to exactly 120.
C1_FinalScore120 == env.done => Points[1] + Points[2] = 120

C1_Witness == env.done /\ Points[1] > 0 /\ Points[2] > 0 /\ Len(Played) = NCards

\* C2 as stated: in every reachable state, also between a lead and its
\* follow, the points of the cards in both hands, in the stock and of the
\* undrawn trump card plus the two scores add up to 120.
C2_Original ==
    SumPoints(Hand(0)) + SumPoints(Hand(1)) + SumPoints(Deck)
        + CardPoints(env.trump_card) + Points[1] + Points[2] = 120

\* C2 amended: the sum is 120 once the card lying on the table (the lead
\* card between a lead and its follow) is counted too.
C2_PointsConserved ==
    SumPoints(Hand(0)) + SumPoints(Hand(1)) + SumPoints(Deck)
        + CardPoints(env.trump_card) + CardPoints(env.lead_card)
        + CardPoints(env.follow_card) + Points[1] + Points[2] = 120

C2_Witness ==
    /\ env.lead_card # None
    /\ points(env.lead_card) > 0
    /\ Points[1] + Points[2] > 0
    /\ env.trump_card # None

\* C3: done is true exactly when both hands and the stock are empty and the
\* trump card has been drawn.
C3_DoneIffExhausted ==
    env.done <=> (/\ Hand(0) = <<>> /\ Hand(1) = <<>>
                  /\ Deck = <<>> /\ env.trump_card = None)

C3_Witness == env.done /\ Hand(0) = <<>> /\ Hand(1) = <<>> /\ last.op = "play"

\* C4: for distinct cards trick_winner returns 0 or 1 (it never raises):
\* 1 if the follow card is trump and the lead is not, 0 if the follow card
\* has another suit than the lead and is not trump, else the side of the
\* card earlier in A 3 K C F 7 6 5 4 2; for two cards of one suit the
\* result for (a, b) is 0 exactly when the result for (b, a) is 1.
C4_TrickWinner ==
    (call.fn = "trick_winner" /\ ret # None /\ ~card_eq(call.lead, call.follow)) =>
        LET l == call.lead
            f == call.follow
            t == call.briscola
        IN /\ ret \in {0, 1}
           /\ (suit(f) = t /\ suit(l) # t) => ret = 1
           /\ (suit(f) # suit(l) /\ suit(f) # t) => ret = 0
           /\ suit(f) = suit(l) =>
                 /\ ret = (IF rank(l) < rank(f) THEN 0 ELSE 1)
                 /\ (ret = 0) <=> (trick_winner(f, l, t) = 1)

C4_Witness ==
    /\ call.fn = "trick_winner" /\ ret = 1
    /\ suit(call.lead) = suit(call.follow)
    /\ suit(call.lead) # call.briscola
    /\ ~card_eq(call.lead, call.follow)

\* trick_winner has returned for two cards of equal suit and rank
EqualCardsCompared ==
    call.fn = "trick_winner" /\ ret # None /\ card_eq(call.lead, call.follow)

\* C16 as stated: a card never loses to itself: for every card a and every
\* trump suit, trick_winner of a against an equal card returns LEAD (0)
C16_Original == EqualCardsCompared => ret = 0

\* C16, what the code does: against an equal card the lead wins exactly when
\* the follow card is the very same object; an equal card that is another
\* object wins as the follow card (1)
C16_EqualCardWinsUnlessSameObject ==
    EqualCardsCompared => ret = (IF call.follow = call.lead THEN 0 ELSE 1)

C16_Witness ==
    /\ EqualCardsCompared
    /\ call.follow # call.lead
    /\ suit(call.lead) # call.briscola
    /\ ret = 1

\* every card held anywhere in the authoritative state: the two hands, the
\* stock, the undrawn trump card, the lead card on the table, the played record
AllHeld ==
    Hand(0) \o Hand(1) \o Deck
        \o (IF env.trump_card # None THEN <<env.trump_card>> ELSE <<>>)
        \o (IF env.lead_card # None THEN <<env.lead_card>> ELSE <<>>)
        \o Played

\* C14: in every state reached from reset() by legal steps, hands, stock,
\* undrawn trump card, lead card on the table and played record together hold
\* each of the 40 cards exactly once
C14_EveryCardOnce ==
    /\ Len(AllHeld) = NCards
    /\ {card_id(AllHeld[i]) : i \in DOMAIN AllHeld} = Card

C14_Witness ==
    /\ last.op = "play"
    /\ env.lead_card # None
    /\ env.trump_card = None
    /\ Deck = <<>>
    /\ Len(Played) >= 2
    /\ Len(Hand(0)) + Len(Hand(1)) = 5

\* a step that plays the second card of a trick: it starts with a lead card
\* on the table
FollowStep == env.lead_card # None

\* the card that step takes from the follower's hand
FollowCard == Hand(env.turn_player)[last'.idx + 1]

\* the player who takes the trick
TrickWinner ==
    IF trick_winner(env.lead_card, FollowCard, env.briscola) = 0
    THEN env.leader ELSE 1 - env.leader

\* C17: a legal step that plays the second card of a trick adds
\* points(lead) + points(follow) to the trick winner's score and leaves the
\* other score unchanged, appends the lead card then the follow card to the
\* played record, makes the winner both leader and turn player, and resets
\* lead_card and follow_card to None
C17_TrickResolution ==
    [][FollowStep =>
          /\ last'.err = "ok"
          /\ Points'[TrickWinner + 1]
                = Points[TrickWinner + 1] + points(env.lead_card) + points(FollowCard)
          /\ Points'[2 - TrickWinner] = Points[2 - TrickWinner]
          /\ Played' = Played \o <<env.lead_card, FollowCard>>
          /\ env'.leader = TrickWinner
          /\ env'.turn_player = TrickWinner
          /\ env'.lead_card = None
          /\ env'.follow_card = None]_vars

\* a trick has just been resolved in favour of the follower, with points on
\* both cards
C17_Witness ==
    /\ last.op \in {"play", "step"}
    /\ env.lead_card = None
    /\ Len(Played) >= 4
    /\ points(Played[Len(Played) - 1]) > 0
    /\ points(Played[Len(Played)]) > 0
    /\ trick_winner(Played[Len(Played) - 1], Played[Len(Played)], env.briscola) = 1
    /\ Points[env.leader + 1] >= 2

\* player q's hand once the card of this step has left it
HandAfterPlay(q) ==
    IF q = env.turn_player THEN RemoveAt(Hand(q), last'.idx + 1) ELSE Hand(q)

\* what the two players draw in this resolution: winner first, then loser
Draws(first, second) ==
    /\ hand_of(mem', env', TrickWinner) = HandAfterPlay(TrickWinner) \o first
    /\ hand_of(mem', env', 1 - TrickWinner) = HandAfterPlay(1 - TrickWinner) \o second

\* C18: at each trick resolution the winner draws before the loser, each
\* taking the top card of the stock while it is non-empty; the revealed trump
\* card is drawn once, by the loser of the resolution that empties the stock,
\* and after it nobody draws: in every resolution both players draw one card or
\* neither does.  No card is drawn by a step that leads a trick.
C18_DrawOrder ==
    [][/\ FollowStep /\ Len(Deck) >= 2 =>
             /\ Draws(<<Deck[1]>>, <<Deck[2]>>)
             /\ Deck' = Tail(Tail(Deck))
             /\ env'.trump_card = env.trump_card
       /\ FollowStep /\ Len(Deck) = 1 =>
             /\ env.trump_card # None
             /\ Draws(<<Deck[1]>>, <<env.trump_card>>)
             /\ Deck' = <<>>
             /\ env'.trump_card = None
       /\ FollowStep /\ Deck = <<>> =>
             /\ env.trump_card = None
             /\ Draws(<<>>, <<>>)
             /\ Deck' = <<>>
             /\ env'.trump_card = None
       /\ ~FollowStep /\ last'.op \in {"play", "step"} =>
             /\ Deck' = Deck
             /\ env'.trump_card = env.trump_card
             /\ Len(Hand(0)') + Len(Hand(1)') = Len(Hand(0)) + Len(Hand(1)) - 1]_vars

\* the trump card has just been drawn, by the loser of the trick, as the
\* last card of its hand
C18_Witness ==
    /\ last.op \in {"play", "step"}
    /\ env.lead_card = None
    /\ env.trump_card = None
    /\ Deck = <<>>
    /\ Len(Hand(0)) = HandSize /\ Len(Hand(1)) = HandSize
    /\ suit(Hand(1 - env.leader)[HandSize]) = env.briscola
    /\ Len(Played) = NCards - 2 * HandSize

\* ---- a caller's step with arbitrary arguments
\* the arguments of the last call broke a precondition of step: the game was
\* over, the player was not the turn player, or the index was none of
\* 0 .. len(hand)-1
CallBrokePrecondition ==
    \/ last.before.view.done
    \/ last.player # last.before.view.turn_player
    \/ last.idx \notin 0 .. (last.n - 1)

CallChangedNothing ==
    EnvView(mem, env) = last.before.view /\ env.rng = last.before.rng

\* C11 as stated: a step call that breaks a precondition (terminal game, wrong
\* player, index outside 0 .. len(hand)-1) raises and changes no field of the
\* game state
C11_Original ==
    last.op = "call" /\ CallBrokePrecondition
        => last.err # "ok" /\ CallChangedNothing

\* C11, what the code does: the calls that raise (terminal game, wrong player,
\* index outside -len(hand) .. len(hand)-1) change nothing
C11_RaisingCallsChangeNothing ==
    last.op = "call" =>
        /\ last.err # "ok" => CallChangedNothing
        /\ last.err # "ok" <=>
              \/ last.before.view.done
              \/ last.player # last.before.view.turn_player
              \/ last.idx \notin (0 - last.n) .. (last.n - 1)

\* a negative index was accepted and a card was played
C11_Witness ==
    /\ last.op = "call" /\ last.idx < 0 /\ last.err = "ok"
    /\ ~CallChangedNothing

\* ---- the policies on their own
\* card a is lower than card b: fewer points, or the same points and weaker
\* in the order A 3 K C F 7 6 5 4 2
Lower(a, b) == points(a) < points(b) \/ (points(a) = points(b) /\ rank(a) > rank(b))

\* position i (0-based) holds a lowest card of the hand and is the first to
IsFirstLowest(hand, i) ==
    /\ i \in 0 .. (Len(hand) - 1)
    /\ \A j \in DOMAIN hand : ~Lower(hand[j], hand[i + 1])
    /\ \A j \in 1 .. i : Lower(hand[i + 1], hand[j])

\* a rule-based agent's act has returned
ActReturned(kinds) == call.fn \in kinds /\ ~ret.pending

\* C12: following a lead card worth 0 points, BestChoiceFirstAgent.act
\* returns the first index of the lowest (points, strength) card of the hand,
\* also when a card of the hand would win the trick
C12_ZeroPointLeadDiscardsLowest ==
    /\ ActReturned({"BestChoiceFirst"})
    /\ call.obs.lead_card # None
    /\ points(call.obs.lead_card) = 0
    => IsFirstLowest(call.obs.hand, ret.idx)

C12_Witness ==
    /\ ActReturned({"BestChoiceFirst"})
    /\ call.obs.lead_card # None
    /\ points(call.obs.lead_card) = 0
    /\ suit(call.obs.lead_card) # call.obs.briscola
    /\ Len(call.obs.hand) = HandSize
    /\ Cardinality({j \in DOMAIN call.obs.hand :
                      trick_winner(call.obs.lead_card, call.obs.hand[j],
                                   call.obs.briscola) = 1}) = 1
    /\ \E j \in DOMAIN call.obs.hand : suit(call.obs.hand[j]) = call.obs.briscola
    /\ trick_winner(call.obs.lead_card, call.obs.hand[ret.idx + 1], call.obs.briscola) = 0
    /\ IsFirstLowest(call.obs.hand, ret.idx)

\* C13 as stated: leading a trick, the heuristic policy plays a card of
\* the highest point value of the hand and, among the cards tied on that point
\* value, the one lowest in the strength order
C13_Original ==
    ActReturned(AgentKinds) /\ call.obs.lead_card = None =>
        LET hand == call.obs.hand
            c == hand[ret.idx + 1]
        IN /\ \A j \in DOMAIN hand : points(hand[j]) <= points(c)
           /\ \A j \in DOMAIN hand : points(hand[j]) = points(c) => rank(hand[j]) <= rank(c)

\* C13, what the code does: leading a trick, both agents play a card of the
\* highest point value and, among the cards tied on it, the strongest one
\* (the first such in hand order)
C13_LeadPlaysHighestStrongest ==
    ActReturned(AgentKinds) /\ call.obs.lead_card = None =>
        LET hand == call.obs.hand
            c == hand[ret.idx + 1]
        IN /\ \A j \in DOMAIN hand : ~Lower(c, hand[j])
           /\ \A j \in 1 .. ret.idx : Lower(hand[j], c)

\* two zero-point cards tie on points and the stronger one was played
C13_Witness ==
    /\ ActReturned(AgentKinds) /\ call.obs.lead_card = None
    /\ call.fn = "BestChoiceFirst"
    /\ \A j \in DOMAIN call.obs.hand : points(call.obs.hand[j]) = 0
    /\ \E j \in DOMAIN call.obs.hand :
          rank(call.obs.hand[j]) > rank(call.obs.hand[ret.idx + 1])

\* move_priors_for_obs has returned
PriorsReturned == call.fn = "move_priors_for_obs" /\ ~ret.pending

\* the returned probabilities, in hand order
PriorValues == [i \in DOMAIN call.obs.hand |-> ret.priors[card_id(call.obs.hand[i])]]

\* C15: for a non-empty hand, leading or following and at every temperature,
\* move_priors_for_obs returns a map whose keys are exactly the card ids of
\* the hand, with every value >= 0 and the values summing to 1 (here: to Scale,
\* short of it by less than one unit of rounding per card)
C15_PriorsAreDistribution ==
    PriorsReturned /\ call.obs.hand # <<>> =>
        /\ DOMAIN ret.priors = {card_id(call.obs.hand[i]) : i \in DOMAIN call.obs.hand}
        /\ \A k \in DOMAIN ret.priors : ret.priors[k] >= 0
        /\ SumSeq(PriorValues) <= Scale
        /\ SumSeq(PriorValues) > Scale - Len(call.obs.hand)

C15_Witness ==
    /\ PriorsReturned
    /\ call.obs.lead_card # None
    /\ call.temp = 2
    /\ Len(call.obs.hand) = HandSize
    /\ \E i, j \in DOMAIN PriorValues : 0 < PriorValues[i] /\ PriorValues[i] < PriorValues[j]

\* card c, played second, takes the trick from `lead` when the trump suit is t
Beats(c, lead, t) ==
    \/ suit(c) = suit(lead) /\ rank(c) < rank(lead)
    \/ suit(c) = t /\ suit(lead) # t

\* hand positions (0-based) of the winning cards of the lead's suit that are
\* no trumps, and of the winning trumps
PlainWinners ==
    {i \in 0 .. (Len(call.obs.hand) - 1) :
        /\ suit(call.obs.hand[i + 1]) = suit(call.obs.lead_card)
        /\ suit(call.obs.hand[i + 1]) # call.obs.briscola
        /\ Beats(call.obs.hand[i + 1], call.obs.lead_card, call.obs.briscola)}
TrumpWinners ==
    {i \in 0 .. (Len(call.obs.hand) - 1) :
        /\ suit(call.obs.hand[i + 1]) = call.obs.briscola
        /\ Beats(call.obs.hand[i + 1], call.obs.lead_card, call.obs.briscola)}

\* BestChoiceFirstAgent.act has returned for an observation that follows a
\* lead card worth points
FollowedPointLead ==
    /\ ActReturned({"BestChoiceFirst"})
    /\ call.obs.lead_card # None
    /\ points(call.obs.lead_card) > 0

\* C19: following a lead card worth points, BestChoiceFirstAgent.act returns
\* the first card in hand order that has the lead's suit, is no trump and
\* beats the lead; else the first trump in hand order that beats the lead; else
\* the card with the lowest (point value, strength) of the hand
C19_FollowPriority ==
    FollowedPointLead =>
        IF PlainWinners # {} THEN ret.idx = Min(PlainWinners)
        ELSE IF TrumpWinners # {} THEN ret.idx = Min(TrumpWinners)
        ELSE /\ ret.idx \in 0 .. (Len(call.obs.hand) - 1)
             /\ \A j \in DOMAIN call.obs.hand :
                   ~Lower(call.obs.hand[j], call.obs.hand[ret.idx + 1])

\* a card of the lead's suit that loses comes first, a winning trump last:
\* the trump is played
C19_Witness ==
    /\ FollowedPointLead
    /\ suit(call.obs.lead_card) # call.obs.briscola
    /\ PlainWinners = {}
    /\ suit(call.obs.hand[1]) = suit(call.obs.lead_card)
    /\ TrumpWinners # {}
    /\ ret.idx = HandSize - 1

\* what the claim lets the key depend on: trump suit, visible lead card,
\* number of played cards, stock count and the hand as a multiset
ObsComponents(m, e, player) ==
    LET obs == observe(m, e, player)
    IN [briscola |-> obs.briscola,
        lead_card |-> IF obs.lead_card # None THEN card_id(obs.lead_card) ELSE None,
        played |-> Len(obs.played),
        deck_count |-> obs.deck_count,
        hand |-> [k \in Card |->
                    Cardinality({i \in DOMAIN obs.hand : card_id(obs.hand[i]) = k})]]

\* C20: the information-set key of (state, player) is a function of the
\* player's observation only: two states whose observations agree on trump
\* suit, visible lead card, number of played cards, stock count and the hand as
\* a multiset have equal keys whatever the order of the hand, the opponent's
\* cards and the stock order, and two observations that differ in one of these
\* have different keys
C20_KeyOfObservation ==
    call.fn = "compared" =>
        ((ret.kept = ret.now) <=>
            (ObsComponents(call.mem, call.env, call.player)
                = ObsComponents(mem, env, call.player)))

\* equal keys for a state and its reordering: the follower's hand, the
\* opponent's hand and the stock are in another order
C20_Witness ==
    /\ call.fn = "compared"
    /\ ret.kept = ret.now
    /\ observe(mem, env, call.player).lead_card # None
    /\ hand_of(call.mem, call.env, call.player) # Hand(call.player)
    /\ hand_of(call.mem, call.env, 1 - call.player) # Hand(1 - call.player)
    /\ deck_of(call.mem, call.env) # Deck

\* ---- the search agent's calls
\* an act call has determinized at least once: act.det is its latest sample
Determinized == act.pc \in {"second", "done"} \/ (act.pc = "first" /\ act.it > 0)
Me == act.obs.player
\* the cards of the latest determinized state, and the lead card on the table
DetCards ==
    act.det.hands[1] \o act.det.hands[2] \o act.det.deck
        \o (IF act.det.env.trump_card # None THEN <<act.det.env.trump_card>> ELSE <<>>)
        \o act.det.played
DetTable == IF act.det.env.lead_card # None THEN <<act.det.env.lead_card>> ELSE <<>>
NoCardTwice(s) == Cardinality({card_id(s[i]) : i \in DOMAIN s}) = Len(s)
ValidIndex(res, n) == res.err = "ok" /\ res.idx \in 0 .. (n - 1)

\* C5: in a non-terminal state with a non-empty hand every agent's act returns,
\* without raising, an index i with 0 <= i < len(obs.hand): the search agent
\* (both budgets) and the two rule-based agents that play_game asks
C5_ActReturnsValidIndex ==
    /\ act.pc \in {"second", "done"} /\ act.obs.hand # <<>>
          => ValidIndex(act.first, Len(act.obs.hand))
    /\ act.pc = "done" /\ act.obs.hand # <<>>
          => ValidIndex(act.second, Len(act.obs.hand))
    /\ last.op = "play" /\ last.n > 0 => last.idx \in 0 .. (last.n - 1)

C5_Witness ==
    /\ act.pc = "done"
    /\ act.ag.iterations = MaxIterations
    /\ act.obs.lead_card # None
    /\ Len(act.obs.hand) = 2
    /\ ValidIndex(act.first, 2) /\ ValidIndex(act.second, 2)
    /\ last.op = "play" /\ last.n = 2 /\ last.idx \in {0, 1}

\* C6: the determinized state has the acting player's hand equal to obs.hand,
\* an opponent hand of obs.opponent_count cards and a stock of obs.deck_count cards
C6_DeterminizedSizes ==
    Determinized =>
        /\ act.det.hands[Me + 1] = act.obs.hand
        /\ Len(act.det.hands[(1 - Me) + 1]) = act.obs.opponent_count
        /\ Len(act.det.deck) = act.obs.deck_count

C6_Witness ==
    /\ Determinized
    /\ act.obs.lead_card # None
    /\ act.obs.opponent_count = 2
    /\ Len(act.det.hands[(1 - Me) + 1]) = 2
    /\ act.obs.deck_count > 0
    /\ act.det.deck # deck_of(mem, env)

\* C7 as stated: acting hand, opponent hand, stock, trump card and played
\* cards of the determinized state hold no card twice and 40 cards in total
C7_Original ==
    Determinized => NoCardTwice(DetCards) /\ Len(DetCards) = NCards

\* C7: acting hand, opponent hand, stock, trump card and played cards of the
\* determinized state, together with the lead card on the table when the acting
\* player follows, hold no card twice and 40 cards in total
C7_DeterminizedDeckOf40 ==
    Determinized =>
        /\ NoCardTwice(DetCards \o DetTable)
        /\ Len(DetCards \o DetTable) = NCards

C7_Witness ==
    /\ Determinized
    /\ act.obs.lead_card # None
    /\ Len(DetCards) = NCards - 1
    /\ act.det.played # <<>>
    /\ act.det.env.trump_card # None

\* C8: on two authoritative envs that give the acting player the same
\* observation and public fields and differ in the hidden cards, agents built
\* with the same seed and configuration draw the same determinized states and
\* return the same action
C8_NoHiddenInformation ==
    /\ act.pc = "second" /\ act.fresh /\ act.twist > 0 /\ act.it > 0
          => act.it <= Len(act.dets) /\ act.det = act.dets[act.it]
    /\ act.pc = "done" /\ act.fresh /\ act.twist > 0 => act.second = act.first

C8_Witness ==
    /\ act.pc = "done" /\ act.fresh /\ act.twist > 0
    /\ act.ag.iterations = MaxIterations
    /\ act.first.err = "ok" /\ act.second = act.first
    /\ act.det = act.dets[MaxIterations]
    /\ TwinEnv(mem, env, Me, act.twist, env.rng).mem # mem
    /\ Len(Deck) > 1

\* C9: while act runs and after it returned, hands, stock, trump card, trump
\* suit, points, leader, turn_player, lead_card, follow_card, played record and
\* done of the authoritative env are what they were when act was called
C9_ActLeavesEnvUnchanged ==
    act.pc # "idle" => EnvView(mem, env) = act.env0

C9_Witness ==
    /\ act.pc = "second" /\ act.it = 0
    /\ act.first.err = "ok"
    /\ act.iter.path # <<>>
    /\ act.iter.final.done
    /\ act.iter.final.points # Points
    /\ EnvView(mem, env) = act.env0
    /\ env.rng # act.rng0

IterationDone == act.pc \in {"first", "second"} /\ act'.pc = act.pc

\* the keys of the nodes the pass has created
NewKeys == DOMAIN act'.ag.tree \ DOMAIN act.ag.tree

\* C21: in each search iteration select/expand creates at most one tree node,
\* plays the action of the greatest prior at the new node once and stops, so
\* the recorded path ends at the node created in that iteration (the nodes
\* before it on the path existed already, the new node has one visit) and after
\* k iterations the tree holds at most k nodes
C21_OneNodePerIteration ==
    [][IterationDone =>
          /\ DOMAIN act.ag.tree \subseteq DOMAIN act'.ag.tree
          /\ Cardinality(NewKeys) <= 1
          /\ Cardinality(DOMAIN act'.ag.tree) <= act'.it
          /\ \A key \in NewKeys :
                LET path == act'.iter.path
                    node == act'.ag.tree[key]
                    a == path[Len(path)][3]
                IN /\ path # <<>>
                   /\ path[Len(path)][1] = key
                   /\ \A d \in 1 .. (Len(path) - 1) : path[d][1] \in DOMAIN act.ag.tree
                   /\ \A b \in DOMAIN node.P : node.P[b] <= node.P[a]
                   /\ node.N[a] = 1
                   /\ \A b \in DOMAIN node.N : b # a => node.N[b] = 0]_vars

\* the second pass went through the root node and created a second node
C21_Witness ==
    /\ act.pc = "first"
    /\ act.err = "ok"
    /\ act.it = 2
    /\ Cardinality(DOMAIN act.ag.tree) = 2
    /\ Len(act.iter.path) = 2
    /\ act.iter.path[1][1] = obs_key(mem, env, Me)
    /\ act.iter.path[2][1] # act.iter.path[1][1]

\* the root node of the running act call, when it exists
RootKey == obs_key(mem, env, Me)
HasRoot == RootKey \in DOMAIN act.ag.tree /\ act.ag.tree[RootKey].actions # <<>>

\* res is the index in obs.hand of a most visited action of the root node
MostVisited(res) ==
    /\ ValidIndex(res, Len(act.obs.hand))
    /\ \A b \in DOMAIN act.ag.tree[RootKey].N :
          act.ag.tree[RootKey].N[b]
              <= act.ag.tree[RootKey].N[card_id(act.obs.hand[res.idx + 1])]

\* C22: when the root node exists with actions after the iteration budget,
\* act returns the index in obs.hand of an action whose visit count at the
\* root is the maximum over the root's actions (both agents' calls)
C22_ReturnsMostVisited ==
    [][/\ act.pc = "first" /\ act'.pc = "second" /\ act.err = "ok" /\ HasRoot
             => MostVisited(act'.first)
       /\ act.pc = "second" /\ act'.pc = "done" /\ act.err = "ok" /\ HasRoot
             => MostVisited(act'.second)]_vars

\* the second agent returned the action visited twice although its mean
\* return is negative, below the 0 of an unvisited action
C22_Witness ==
    /\ act.pc = "done"
    /\ act.second.err = "ok"
    /\ HasRoot
    /\ Len(act.obs.hand) = HandSize
    /\ act.ag.tree[RootKey].N[card_id(act.obs.hand[act.second.idx + 1])] = 2
    /\ act.ag.tree[RootKey].W[card_id(act.obs.hand[act.second.idx + 1])] < 0

\* the statistics of (key, a) before this pass: a node created in the pass
\* starts at N = 0, W = 0.0
OldStats(key, a) ==
    IF key \in DOMAIN act.ag.tree
    THEN [N |-> act.ag.tree[key].N[a], W |-> act.ag.tree[key].W[a]]
    ELSE [N |-> 0, W |-> 0]

\* the path entries (1-based positions) that took action a at node key
OnPath(key, a) ==
    {d \in DOMAIN act'.iter.path :
        act'.iter.path[d][1] = key /\ act'.iter.path[d][3] = a}

RECURSIVE Pow(_, _)
Pow(b, n) == IF n = 0 THEN 1 ELSE b * Pow(b, n - 1)

\* C23: backpropagating the value v along the path changes, for the entry at
\* depth d (root 0) with acting player p and action a, N[a] by +1 and W[a] by
\* +v * discount^d when p is the root player and by -v * discount^d otherwise
\* (up to one unit of rounding per multiplication); the statistics of every
\* (node, action) pair not on the path are unchanged
C23_Backprop ==
    [][IterationDone /\ act'.err = "ok" =>
          \A key \in DOMAIN act'.ag.tree :
             \A a \in DOMAIN act'.ag.tree[key].N :
                /\ OnPath(key, a) = {} =>
                      /\ act'.ag.tree[key].N[a] = OldStats(key, a).N
                      /\ act'.ag.tree[key].W[a] = OldStats(key, a).W
                /\ \A d \in OnPath(key, a) :
                      LET p == act'.iter.path[d][2]
                          v == IF p = Me THEN act'.iter.value ELSE 0 - act'.iter.value
                          dW == act'.ag.tree[key].W[a] - OldStats(key, a).W
                          off == dW * Pow(10, d - 1) - v * Pow(act.ag.discount, d - 1)
                      IN /\ act'.ag.tree[key].N[a] = OldStats(key, a).N + 1
                         /\ off <= (d - 1) * Pow(10, d - 1)
                         /\ 0 - off <= (d - 1) * Pow(10, d - 1)]_vars

\* a pass has backed a non-zero value up a path of two entries, the second
\* one a move of the other player
C23_Witness ==
    /\ act.pc = "first"
    /\ act.err = "ok"
    /\ act.it = 2
    /\ Len(act.iter.path) = 2
    /\ act.iter.path[2][2] # Me
    /\ act.iter.value > 0
    /\ act.ag.tree[act.iter.path[2][1]].W[act.iter.path[2][3]] < 0
    /\ act.ag.tree[act.iter.path[1][1]].N[act.iter.path[1][3]] = 2

\* C24: for every determinization of a reachable non-terminal state,
\* select/expand followed by the rollout ends with the simulated game terminal:
\* done is true and the simulated scores add up to 120, so the rollout's
\* empty-hand guard never stops a simulation early
C24_SimulationEndsTerminal ==
    act.pc \in {"first", "second"} /\ act.it > 0 =>
        /\ act.err = "ok"
        /\ act.iter.final.done
        /\ act.iter.final.points[1] + act.iter.final.points[2] = 120

\* a simulation that started from a state in which the player follows, with
\* stock left, ran to the end
C24_Witness ==
    /\ act.pc = "second" /\ act.it = MaxIterations
    /\ act.obs.lead_card # None
    /\ act.obs.deck_count > 2
    /\ act.iter.final.done
    /\ act.iter.final.points[1] > Points[1]
    /\ act.iter.final.points[2] > Points[2]

\* ---- concurrent iterations
\* the completed iterations, and how many of their paths took a at node key
Completed == Len(act.paths)
Took(key, a) ==
    Cardinality({x \in (DOMAIN act.paths) \X (1 .. NCards) :
                    /\ x[2] <= Len(act.paths[x[1]])
                    /\ act.paths[x[1]][x[2]][1] = key
                    /\ act.paths[x[1]][x[2]][3] = a})

\* no worker is in the middle of an iteration; k iterations have completed
Quiet ==
    /\ act.pc = "workers"
    /\ \A i \in DOMAIN act.w : act.w[i].pc \in {"idle", "done"}

\* every node's visit counts are the numbers of completed paths through it,
\* and the root's visits add up to the number of completed iterations
NoVisitLost ==
    /\ RootKey \in DOMAIN agent.tree
    /\ SumSeq([j \in DOMAIN agent.tree[RootKey].actions |->
                 agent.tree[RootKey].N[agent.tree[RootKey].actions[j]]]) = Completed
    /\ \A key \in DOMAIN agent.tree :
          \A a \in DOMAIN agent.tree[key].N : agent.tree[key].N[a] = Took(key, a)

C26_TurnPlayerHasCard ==
    /\ ~env.done => /\ Len(Hand(env.turn_player)) >= 1
                    /\ legal_moves(mem, env, env.turn_player) # {}
    /\ Len(Hand(0)) <= HandSize
    /\ Len(Hand(1)) <= HandSize

\* the last trick is half played: the leader's hand is empty, the turn
\* player holds the last card of the game
C26_Witness ==
    /\ ~env.done
    /\ env.lead_card # None
    /\ Hand(env.leader) = <<>>
    /\ Len(Hand(env.turn_player)) = 1
    /\ last.op \in {"play", "step"}

\* the number of steps taken in the current game: two per resolved trick and
\* one for a lead card on the table
StepsTaken == Len(Played) + (IF env.lead_card # None THEN 1 ELSE 0)

\* C27: every game terminates: a legal step exists while the game is not
\* over, each legal step is one more step of the game, and done is true
\* exactly when 40 steps (20 resolved tricks) have been taken, so any sequence
\* of legal steps ends after exactly 40 and the loop of play_game returns
C27_TerminatesAfter40Steps ==
    /\ [](env.done <=> StepsTaken = NCards)
    /\ [](~env.done => legal_moves(mem, env, env.turn_player) # {})
    /\ [][last'.op \in {"play", "step"} =>
             /\ ~env.done
             /\ last'.err = "ok"
             /\ StepsTaken' = StepsTaken + 1]_vars

\* a game that took direct legal steps and play_game turns is over after 40
\* steps
C27_Witness ==
    /\ env.done
    /\ StepsTaken = NCards
    /\ free = MaxFree
    /\ last.op = "play"

\* ---- the root node
\* C28: after act has run its budget of k iterations on a non-terminal state
\* with a non-empty hand, the root node exists, its action list is the card ids
\* of obs.hand, and the visit counts of its actions add up to k (after each
\* pass: to the number of passes so far)
C28_RootVisitsSumToBudget ==
    act.pc \in {"first", "second"} /\ act.it > 0 /\ act.obs.hand # <<>> =>
        /\ act.err = "ok"
        /\ RootKey \in DOMAIN act.ag.tree
        /\ act.ag.tree[RootKey].actions
              = [i \in DOMAIN act.obs.hand |-> card_id(act.obs.hand[i])]
        /\ SumSeq([i \in DOMAIN act.obs.hand |->
                     act.ag.tree[RootKey].N[card_id(act.obs.hand[i])]]) = act.it

\* the budget is spent and two different root actions have one visit each
C28_Witness ==
    /\ act.pc = "first"
    /\ act.it = MaxIterations /\ act.ag.iterations = MaxIterations
    /\ Len(act.obs.hand) = HandSize
    /\ RootKey \in DOMAIN act.ag.tree
    /\ act.ag.tree[RootKey].N[card_id(act.obs.hand[1])]
          + act.ag.tree[RootKey].N[card_id(act.obs.hand[HandSize])] = MaxIterations
    /\ act.ag.tree[RootKey].N[card_id(act.obs.hand[1])] = 1

\* ---- one agent, several decisions
\* C29 as stated: a decision does not depend on earlier decisions of the same
\* agent instance: the agent play_game holds, which has acted before, returns
\* on a game state and observation the action a freshly constructed agent with
\* the same seed and configuration returns
C29_Original ==
    act.pc = "done" /\ act.twist = 0 => act.second = act.first

\* C29, what the code does: act starts from an empty tree, also on an agent
\* that has acted before; the agent's generator is carried over from one call
\* to the next
C29_TreeClearedGeneratorKept ==
    [][act.pc = "idle" /\ act'.pc = "first" =>
          /\ act'.ag.tree = <<>>
          /\ agents[env.turn_player + 1] = "ISMCTS" => act'.ag.rng = agent.rng]_vars

\* the held agent, its generator advanced by an earlier decision, and a fresh
\* agent of the same seed and configuration return different indices
C29_Witness ==
    /\ act.pc = "done" /\ act.twist = 0
    /\ ~act.fresh
    /\ act.first.err = "ok" /\ act.second.err = "ok"
    /\ act.first.idx # act.second.idx

\* ---- clone and the source env's generator
\* C30 as stated: cloning does not disturb the source game's random stream:
\* after any number of clone() calls the deal of the env's next reset() is the
\* deal reset() gives when no clone was made
C30_Original == ~ret.pending => ret.deal = ret.uncloned

\* C30, what the code does: every clone() draws one number from the source
\* env's generator and leaves the rest of the env as it was; without a clone
\* the next deal is the uncloned one
C30_CloneDrawsFromSource ==
    /\ [][free' = free + 1 =>
             /\ env'.rng = rng_next(env.rng)
             /\ EnvView(mem', env') = EnvView(mem, env)]_vars
    /\ [](~ret.pending /\ free = 0 => ret.deal = ret.uncloned)

\* after one clone in mid-game the next reset deals other hands
C30_Witness ==
    /\ ~ret.pending
    /\ free = 1
    /\ ret.deal.hands # ret.uncloned.hands
    /\ ret.deal.played = <<>>

====
